---- MODULE Spec2Model ----
(***************************************************************************)
(* PpmsConnection (src/src/pyppms/ppms.py): authentication handshake,      *)
(* request() with its on-disk interception cache, and the public methods   *)
(* built on request().                                                     *)
(*                                                                         *)
(* A Python str is a sequence of one-character strings, so that lower(),   *)
(* the "in" substring test, slicing, sorting and concatenation are         *)
(* computed and not assumed.  A Python dict is the sequence of its         *)
(* <<key, value>> items in insertion order (keys unique).                  *)
(***************************************************************************)
EXTENDS Integers, Sequences, FiniteSets, TLC

VARIABLES
    pc,                      \* position of the one connection object's life
    api_key,                 \* self.api_key
    cache_path,              \* self.cache_path
    cache_users_only,        \* self.cache_users_only
    status,                  \* self.status (auth_state, auth_response, auth_httpstatus)
    last_served_from_cache,  \* self.last_served_from_cache
    fs,                      \* the disk: directories and files below the cache roots
    last,                    \* what the most recent request() call did
    exc,                     \* the exception the last step raised ("none": it returned)
    users,                   \* self.users
    fullname_mapping,        \* self.fullname_mapping
    frame,                   \* the arguments of the new_user() call under way (else NoFrame)
    flushed,                 \* what the most recent flush_cache() call did
    peer,                    \* the attributes of the other connection object
    codec,                   \* the call of a function of common.py, and what it gave
    ret,                     \* what the most recent set_system_booking_permissions() returned
    ops                      \* number of public method calls made so far

vars == <<pc, api_key, cache_path, cache_users_only, status,
          last_served_from_cache, fs, last, exc, users, fullname_mapping, frame,
          flushed, peer, codec, ret, ops>>

-----------------------------------------------------------------------------
(* Bounds *)

MaxOps == 2

-----------------------------------------------------------------------------
(* Python str *)

\* the characters in use, in code point order (sorting compares code points)
AsciiOrder ==
    << "\n", "\r", " ", "\"", ",", "-", ".", "/",
       "0", "1", "2", "3", "4", "5", "6", "7", "8", "9", ":",
       "A", "B", "C", "D", "E", "F", "G", "H", "I", "J", "K", "L", "M",
       "N", "O", "P", "Q", "R", "S", "T", "U", "V", "W", "X", "Y", "Z", "_",
       "a", "b", "c", "d", "e", "f", "g", "h", "i", "j", "k", "l", "m",
       "n", "o", "p", "q", "r", "s", "t", "u", "v", "w", "x", "y", "z" >>

Chars == {AsciiOrder[i] : i \in 1..Len(AsciiOrder)}

\* ord(c), up to the gaps between the characters in use
OrdTable == [c \in Chars |-> CHOOSE i \in 1..Len(AsciiOrder) : AsciiOrder[i] = c]

Ord(c) == OrdTable[c]

UpperCase ==
    { "A", "B", "C", "D", "E", "F", "G", "H", "I", "J", "K", "L", "M",
      "N", "O", "P", "Q", "R", "S", "T", "U", "V", "W", "X", "Y", "Z" }

\* "a" comes 27 places after "A" in AsciiOrder
LowerTable == [c \in Chars |-> IF c \in UpperCase THEN AsciiOrder[OrdTable[c] + 27] ELSE c]

LowerChar(c) == LowerTable[c]

\* str.lower()
Lower(s) == [i \in 1..Len(s) |-> LowerChar(s[i])]

\* sub in s
Contains(sub, s) ==
    \E i \in 0..(Len(s) - Len(sub)) : SubSeq(s, i + 1, i + Len(sub)) = sub

\* a < b for two str
StrLess(a, b) ==
    \E i \in 1..(Len(a) + 1) :
        /\ i <= Len(b)
        /\ \A j \in 1..(i - 1) : a[j] = b[j]
        /\ \/ i = Len(a) + 1
           \/ Ord(a[i]) < Ord(b[i])

\* s[n:]
SliceFrom(s, n) == SubSeq(s, n + 1, Len(s))

\* int(c) of a digit: the digits follow "0" in code point order
DigitValue(c) == OrdTable[c] - OrdTable["0"]

RECURSIVE ParseInt(_)
\* int(s) of a decimal text
ParseInt(s) ==
    IF s = << >> THEN 0
    ELSE 10 * ParseInt(SubSeq(s, 1, Len(s) - 1)) + DigitValue(s[Len(s)])

\* None (not a str: its one element is not a character)
None == << "None" >>

-----------------------------------------------------------------------------
(* Python dict *)

DictKeys(d) == [i \in 1..Len(d) |-> d[i][1]]

DictHas(d, k) == \E i \in 1..Len(d) : d[i][1] = k

DictGet(d, k) == d[CHOOSE i \in 1..Len(d) : d[i][1] = k][2]

\* d[k] = v: an existing key keeps its place
DictSet(d, k, v) ==
    IF DictHas(d, k)
    THEN [i \in 1..Len(d) |-> IF d[i][1] = k THEN <<k, v>> ELSE d[i]]
    ELSE Append(d, <<k, v>>)

RECURSIVE DictUpdate(_, _)
\* d.update(other)
DictUpdate(d, other) ==
    IF other = << >> THEN d
    ELSE DictUpdate(DictSet(d, other[1][1], other[1][2]), Tail(other))

RECURSIVE InsertSorted(_, _)
InsertSorted(k, sorted) ==
    IF sorted = << >> THEN << k >>
    ELSE IF StrLess(k, Head(sorted)) THEN << k >> \o sorted
    ELSE << Head(sorted) >> \o InsertSorted(k, Tail(sorted))

\* list.sort() left out
Sort_unsorted(keys) == keys

RECURSIVE Sort(_)
\* list.sort() of a list of str
Sort(keys) ==
    IF keys = << >> THEN << >>
    ELSE InsertSorted(keys[Len(keys)], Sort(SubSeq(keys, 1, Len(keys) - 1)))

-----------------------------------------------------------------------------
(* Texts of the program *)

T_action == <<"a", "c", "t", "i", "o", "n">>
T_apikey == <<"a", "p", "i", "k", "e", "y">>
T_auth == <<"a", "u", "t", "h">>
T_getuser == <<"g", "e", "t", "u", "s", "e", "r">>
T_txt == <<".", "t", "x", "t">>
T_response == <<"_", "_", "r", "e", "s", "p", "o", "n", "s", "e">>
T_status_code_txt ==
    <<"_", "s", "t", "a", "t", "u", "s", "-", "c", "o", "d", "e", ".", "t", "x", "t">>
T_error == <<"e", "r", "r", "o", "r">>
T_request_not_authorized ==
    <<"r", "e", "q", "u", "e", "s", "t", " ", "n", "o", "t", " ",
      "a", "u", "t", "h", "o", "r", "i", "z", "e", "d">>

\* requests.codes.ok
status_ok == 200

-----------------------------------------------------------------------------
(* The disk *)

\* os.path.join(a, b) for a relative b
PathJoin(a, b) ==
    IF a = << >> THEN b
    ELSE IF a[Len(a)] = "/" THEN a \o b
    ELSE a \o << "/" >> \o b

LastIndexOf(s, c) ==
    IF \E i \in 1..Len(s) : s[i] = c
    THEN CHOOSE i \in 1..Len(s) : s[i] = c /\ \A j \in (i + 1)..Len(s) : s[j] # c
    ELSE 0

\* os.path.splitext(p)[0]
SplitextRoot(p) ==
    LET sep == LastIndexOf(p, "/")
        dot == LastIndexOf(p, ".")
    IN  IF dot > sep /\ \E j \in (sep + 1)..(dot - 1) : p[j] # "."
        THEN SubSeq(p, 1, dot - 1)
        ELSE p

\* no file at all
NoFiles == [q \in {} |-> << >>]

EmptyFs == [dirs |-> {}, files |-> NoFiles]

FileExists(disk, p) == p \in DOMAIN disk.files

\* open(p, "w").write(text)
WriteFile(disk, p, text) ==
    [disk EXCEPT !.files =
        [q \in (DOMAIN disk.files) \cup {p} |-> IF q = p THEN text ELSE disk.files[q]]]

\* os.makedirs(cache_path/action)
MakeDirs(disk, root, dir) == [disk EXCEPT !.dirs = @ \cup {root, dir}]

-----------------------------------------------------------------------------
(* The cache of request() *)

RECURSIVE SignatureOf(_, _)
\* the loop over the sorted keys that builds up the signature
SignatureOf(keylist, req_data) ==
    IF keylist = << >> THEN << >>
    ELSE LET key == Head(keylist)
             part == IF key \in {T_action, T_apikey}
                     THEN << >>
                     ELSE <<"_", "_">> \o key \o <<"-", "-">> \o DictGet(req_data, key)
         IN  part \o SignatureOf(Tail(keylist), req_data)

\* the name of the cache file inside the directory of its action
Signature(req_data) ==
    LET signature == SignatureOf(Sort(DictKeys(req_data)), req_data)
    IN  SliceFrom(IF signature = << >> THEN T_response ELSE signature, 2) \o T_txt

\* what os.makedirs and open(.., "w") can do when storing a response
IoOutcomes == {"ok", "mkdir_fails", "write_fails"}

\* __interception_path without the test of cache_users_only
InterceptionPath_all(self, disk, req_data, create_dir, io) ==
    LET intercept_dir == PathJoin(self.cache_path, DictGet(req_data, T_action))
    IN  IF create_dir /\ intercept_dir \notin disk.dirs /\ io = "mkdir_fails"
        THEN [file |-> None, disk |-> disk]
        ELSE [file |-> PathJoin(intercept_dir, Signature(req_data)),
              disk |-> IF create_dir /\ intercept_dir \notin disk.dirs
                       THEN MakeDirs(disk, self.cache_path, intercept_dir)
                       ELSE disk]

\* __interception_path that keeps every object's files under one directory
InterceptionPath_shared(self, disk, req_data, create_dir, io) ==
    LET action == DictGet(req_data, T_action)
        intercept_dir == PathJoin(<<"c">>, action)
    IN  IF self.cache_users_only /\ action # T_getuser
        THEN [file |-> None, disk |-> disk]
        ELSE IF create_dir /\ intercept_dir \notin disk.dirs /\ io = "mkdir_fails"
        THEN [file |-> None, disk |-> disk]
        ELSE [file |-> PathJoin(intercept_dir, Signature(req_data)),
              disk |-> IF create_dir /\ intercept_dir \notin disk.dirs
                       THEN MakeDirs(disk, <<"c">>, intercept_dir)
                       ELSE disk]

\* __interception_path: the file (None if there is none) and the disk it leaves
InterceptionPath(self, disk, req_data, create_dir, io) ==
    LET action == DictGet(req_data, T_action)
        intercept_dir == PathJoin(self.cache_path, action)
    IN  IF self.cache_users_only /\ action # T_getuser
        THEN [file |-> None, disk |-> disk]
        ELSE IF create_dir /\ intercept_dir \notin disk.dirs /\ io = "mkdir_fails"
        THEN [file |-> None, disk |-> disk]
        ELSE [file |-> PathJoin(intercept_dir, Signature(req_data)),
              disk |-> IF create_dir /\ intercept_dir \notin disk.dirs
                       THEN MakeDirs(disk, self.cache_path, intercept_dir)
                       ELSE disk]

NoResponse == [text |-> None, status_code |-> -1]

\* __intercept_read that does not look for the file of the status code
InterceptRead_200(self, disk, req_data) ==
    IF self.cache_path = << >>
    THEN [hit |-> FALSE, file |-> None, response |-> NoResponse]
    ELSE LET intercept_file == InterceptionPath(self, disk, req_data, FALSE, "ok").file
         IN  IF intercept_file = None \/ ~FileExists(disk, intercept_file)
             THEN [hit |-> FALSE, file |-> intercept_file, response |-> NoResponse]
             ELSE [hit |-> TRUE,
                   file |-> intercept_file,
                   response |-> [text |-> disk.files[intercept_file], status_code |-> 200]]

\* __intercept_read: hit is FALSE where the code raises LookupError
InterceptRead(self, disk, req_data) ==
    IF self.cache_path = << >>
    THEN [hit |-> FALSE, file |-> None, response |-> NoResponse]
    ELSE LET intercept_file == InterceptionPath(self, disk, req_data, FALSE, "ok").file
             status_file == SplitextRoot(intercept_file) \o T_status_code_txt
         IN  IF intercept_file = None \/ ~FileExists(disk, intercept_file)
             THEN [hit |-> FALSE, file |-> intercept_file, response |-> NoResponse]
             ELSE [hit |-> TRUE,
                   file |-> intercept_file,
                   response |->
                       [text |-> disk.files[intercept_file],
                        status_code |-> IF FileExists(disk, status_file)
                                        THEN ParseInt(disk.files[status_file])
                                        ELSE 200]]

\* __intercept_store that names the file and does not write it
InterceptStore_unwritten(self, disk, req_data, response, io) ==
    IF self.cache_path = << >>
    THEN [file |-> None, disk |-> disk]
    ELSE InterceptionPath(self, disk, req_data, TRUE, io)

\* __intercept_store: the disk after it, and the file it computed
InterceptStore(self, disk, req_data, response, io) ==
    IF self.cache_path = << >>
    THEN [file |-> None, disk |-> disk]
    ELSE LET ip == InterceptionPath(self, disk, req_data, TRUE, io)
         IN  IF ip.file = None THEN ip
             ELSE IF io = "write_fails"
             THEN [file |-> ip.file, disk |-> WriteFile(ip.disk, ip.file, << >>)]
             ELSE [file |-> ip.file, disk |-> WriteFile(ip.disk, ip.file, response.text)]

\* the scan without lower()
Unauthorized_exact(text) == Contains(T_request_not_authorized, text)

\* "request not authorized" in response.text.lower()
Unauthorized(text) == Contains(T_request_not_authorized, Lower(text))

\* req_data of request(): action and API key, updated with the parameters
ReqData(self, action, parameters) ==
    DictUpdate(<< <<T_action, action>>, <<T_apikey, self.api_key>> >>, parameters)

\* the try block without the test of skip_cache
CacheLookup_always(self, disk, req_data, skip_cache) == InterceptRead(self, disk, req_data)

\* the try block that leaves the cache aside for the actions that change the server
CacheLookup_queries(self, disk, req_data, skip_cache) ==
    IF skip_cache \/ req_data[1][2] \in {<<"s", "e", "t", "r", "i", "g", "h", "t">>,
                                         <<"n", "e", "w", "u", "s", "e", "r">>}
    THEN [hit |-> FALSE, file |-> None, response |-> NoResponse]
    ELSE InterceptRead(self, disk, req_data)

\* the try block of request(): hit is FALSE where LookupError is raised
CacheLookup(self, disk, req_data, skip_cache) ==
    IF skip_cache
    THEN [hit |-> FALSE, file |-> None, response |-> NoResponse]
    ELSE InterceptRead(self, disk, req_data)

\* the scan that raises and leaves auth_state as it is
AuthorizationScan_kept(self, response) == self

\* the scan of request() for the refusal, on the object
AuthorizationScan(self, response) ==
    IF Unauthorized(response.text)
    THEN [self EXCEPT !.status.auth_state = "FAILED"]
    ELSE self

\* the exception request() ends with ("none": it returns the response)
ScanRaises(response) == IF Unauthorized(response.text) THEN "ConnectionError" ELSE "none"

\* request() that scans the response before it stores it
Request_scan_first(self, disk, action, parameters, skip_cache, net, io, n) ==
    LET req_data == ReqData(self, action, parameters)
        rd == CacheLookup(self, disk, req_data, skip_cache)
        call == [n |-> n + 1,
                 action |-> action, parameters |-> parameters, skip_cache |-> skip_cache,
                 served |-> IF rd.hit THEN "cache" ELSE "online",
                 posts |-> IF rd.hit THEN 0 ELSE 1,
                 posted |-> IF rd.hit \/ net.raises THEN NoResponse
                            ELSE [text |-> net.text, status_code |-> net.status_code],
                 io |-> io,
                 had_file |-> InterceptRead(self, disk, req_data).hit,
                 flag_before |-> self.last_served_from_cache,
                 auth_before |-> self.status.auth_state]
    IN  IF ~rd.hit /\ net.raises
        THEN [self |-> self, disk |-> disk, raised |-> "RequestException",
              response |-> NoResponse,
              call |-> call @@
                       [file |-> rd.file, response |-> NoResponse,
                        raised |-> "RequestException", named |-> None,
                        auth_after |-> self.status.auth_state]]
        ELSE
        LET response == IF rd.hit THEN rd.response
                        ELSE [text |-> net.text, status_code |-> net.status_code]
            self1 == [self EXCEPT !.last_served_from_cache = rd.hit]
            st == IF ~self1.last_served_from_cache /\ ScanRaises(response) = "none"
                  THEN InterceptStore(self1, disk, req_data, response, io)
                  ELSE [file |-> rd.file, disk |-> disk]
            self2 == AuthorizationScan(self1, response)
        IN  [self |-> self2,
             disk |-> st.disk,
             raised |-> ScanRaises(response),
             response |-> response,
             call |-> call @@
                      [file |-> IF st.file = None THEN rd.file ELSE st.file,
                       response |-> response,
                       raised |-> ScanRaises(response),
                       named |-> IF ScanRaises(response) = "none" THEN None
                                 ELSE DictGet(req_data, T_action),
                       auth_after |-> self2.status.auth_state]]

\* request(): the object and the disk after the call, the exception it raised,
\* the response it got, and the record of the call.  net is what requests.post
\* does if it is called, io what the disk does if the response is stored, n the
\* number of request() calls before this one.
Request(self, disk, action, parameters, skip_cache, net, io, n) ==
    LET req_data == ReqData(self, action, parameters)
        rd == CacheLookup(self, disk, req_data, skip_cache)
        call == [n |-> n + 1,
                 action |-> action, parameters |-> parameters, skip_cache |-> skip_cache,
                 served |-> IF rd.hit THEN "cache" ELSE "online",
                 posts |-> IF rd.hit THEN 0 ELSE 1,
                 posted |-> IF rd.hit \/ net.raises THEN NoResponse
                            ELSE [text |-> net.text, status_code |-> net.status_code],
                 io |-> io,
                 had_file |-> InterceptRead(self, disk, req_data).hit,
                 flag_before |-> self.last_served_from_cache,
                 auth_before |-> self.status.auth_state]
    IN  IF ~rd.hit /\ net.raises
        THEN [self |-> self, disk |-> disk, raised |-> "RequestException",
              response |-> NoResponse,
              call |-> call @@
                       [file |-> rd.file, response |-> NoResponse,
                        raised |-> "RequestException", named |-> None,
                        auth_after |-> self.status.auth_state]]
        ELSE
        LET response == IF rd.hit THEN rd.response
                        ELSE [text |-> net.text, status_code |-> net.status_code]
            self1 == [self EXCEPT !.last_served_from_cache = rd.hit]
            st == IF ~self1.last_served_from_cache
                  THEN InterceptStore(self1, disk, req_data, response, io)
                  ELSE [file |-> rd.file, disk |-> disk]
            self2 == AuthorizationScan(self1, response)
        IN  [self |-> self2,
             disk |-> st.disk,
             raised |-> ScanRaises(response),
             response |-> response,
             call |-> call @@
                      [file |-> IF st.file = None THEN rd.file ELSE st.file,
                       response |-> response,
                       raised |-> ScanRaises(response),
                       named |-> IF ScanRaises(response) = "none" THEN None
                                 ELSE DictGet(req_data, T_action),
                       auth_after |-> self2.status.auth_state]]

-----------------------------------------------------------------------------
(* flush_cache *)

\* the path p is below the directory dir
Below(p, dir) ==
    /\ Len(p) > Len(dir) + 1
    /\ SubSeq(p, 1, Len(dir)) = dir
    /\ p[Len(dir) + 1] = "/"

\* os.listdir(dir): the names of what is in the directory
ListDir(disk, dir) ==
    { SliceFrom(p, Len(dir) + 1) :
        p \in { q \in disk.dirs \cup DOMAIN disk.files :
                  Below(q, dir) /\ LastIndexOf(q, "/") = Len(dir) + 1 } }

\* what shutil.rmtree does with a directory
RmTreeOutcomes == {"ok", "rmtree_fails"}

\* the disk without the directories of the set dirs that shutil.rmtree removes:
\* it raises, and removes nothing, for what is no directory
RmTrees(disk, dirs, io) ==
    LET gone(p) == \E d \in dirs \cap disk.dirs : p = d \/ Below(p, d)
    IN  IF io = "rmtree_fails" THEN disk
        ELSE [dirs |-> {d \in disk.dirs : ~gone(d)},
              files |-> [p \in {q \in DOMAIN disk.files : ~gone(q)} |-> disk.files[p]]]

\* flush_cache that keeps nothing
FlushCache_all(self, disk, keep_users, io) ==
    IF self.cache_path = << >> THEN [disk |-> disk, raised |-> "none"]
    ELSE [disk |-> RmTrees(disk, {self.cache_path}, io), raised |-> "none"]

\* flush_cache: the disk after it, and the exception it raised
FlushCache(self, disk, keep_users, io) ==
    IF self.cache_path = << >> THEN [disk |-> disk, raised |-> "none"]
    ELSE IF ~keep_users
    THEN [disk |-> RmTrees(disk, {self.cache_path}, io), raised |-> "none"]
    ELSE IF self.cache_path \notin disk.dirs
    THEN [disk |-> disk, raised |-> "FileNotFoundError"]
    ELSE [disk |-> RmTrees(disk,
                           { PathJoin(self.cache_path, subdir) :
                               subdir \in ListDir(disk, self.cache_path) \ {T_getuser} },
                           io),
          raised |-> "none"]

-----------------------------------------------------------------------------
(* The quasi-CSV responses (common.py) and the users made of them (user.py) *)

\* True and False (not a str: their one element is not a character)
PyTrue == << "True" >>
PyFalse == << "False" >>

T_true == <<"t", "r", "u", "e">>
T_false == <<"f", "a", "l", "s", "e">>

\* str(v)
Str(v) ==
    IF v = PyTrue THEN <<"T", "r", "u", "e">>
    ELSE IF v = PyFalse THEN <<"F", "a", "l", "s", "e">>
    ELSE v

\* the end of a line, which csv.reader is told after the characters of the line
Eol == "EOL"

CsvStart == [state |-> "START_RECORD", field |-> << >>, fields |-> << >>, error |-> FALSE]

CsvSaveField(st) == [st EXCEPT !.fields = Append(@, st.field), !.field = << >>]

CsvAddChar(st, c) == [st EXCEPT !.field = Append(@, c)]

\* csv.reader on one character (dialect excel: delimiter ",", quotechar '"',
\* doublequote, not strict)
CsvChar(st, c) ==
    LET newline == c \in {"\n", "\r", Eol}
        after == IF c = Eol THEN "START_RECORD" ELSE "EAT_CRNL"
    IN  IF st.state = "START_RECORD" /\ c = Eol THEN st
        ELSE IF st.state = "START_RECORD" /\ newline THEN [st EXCEPT !.state = "EAT_CRNL"]
        ELSE IF st.state \in {"START_RECORD", "START_FIELD"}
        THEN IF newline THEN [CsvSaveField(st) EXCEPT !.state = after]
             ELSE IF c = "\"" THEN [st EXCEPT !.state = "IN_QUOTED_FIELD"]
             ELSE IF c = "," THEN [CsvSaveField(st) EXCEPT !.state = "START_FIELD"]
             ELSE [CsvAddChar(st, c) EXCEPT !.state = "IN_FIELD"]
        ELSE IF st.state = "IN_FIELD"
        THEN IF newline THEN [CsvSaveField(st) EXCEPT !.state = after]
             ELSE IF c = "," THEN [CsvSaveField(st) EXCEPT !.state = "START_FIELD"]
             ELSE CsvAddChar(st, c)
        ELSE IF st.state = "IN_QUOTED_FIELD"
        THEN IF c = Eol THEN st
             ELSE IF c = "\"" THEN [st EXCEPT !.state = "QUOTE_IN_QUOTED_FIELD"]
             ELSE CsvAddChar(st, c)
        ELSE IF st.state = "QUOTE_IN_QUOTED_FIELD"
        THEN IF c = "\"" THEN [CsvAddChar(st, c) EXCEPT !.state = "IN_QUOTED_FIELD"]
             ELSE IF c = "," THEN [CsvSaveField(st) EXCEPT !.state = "START_FIELD"]
             ELSE IF newline THEN [CsvSaveField(st) EXCEPT !.state = after]
             ELSE [CsvAddChar(st, c) EXCEPT !.state = "IN_FIELD"]
        ELSE \* EAT_CRNL
             IF c \in {"\n", "\r"} THEN st
             ELSE IF c = Eol THEN [st EXCEPT !.state = "START_RECORD"]
             ELSE [st EXCEPT !.error = TRUE]

\* csv.reader at the end of a line, told after the last character of the line
CsvEol(st, endline) == IF endline /\ ~st.error THEN CsvChar(st, Eol) ELSE st

\* a record that ends with the line is a row more
CsvRow(rows, st, endline) ==
    IF endline /\ ~st.error /\ st.state = "START_RECORD"
    THEN [st |-> [st EXCEPT !.fields = << >>], rows |-> Append(rows, st.fields)]
    ELSE [st |-> st, rows |-> rows]

\* csv.reader on the character c of a line, the last one of the line or not
CsvFeed(acc, c, endline) == CsvRow(acc.rows, CsvEol(CsvChar(acc.st, c), endline), endline)

\* the end of the text inside a record: what is there of it is the last row
CsvEnd(acc) ==
    IF acc.st.state # "START_RECORD"
       /\ (acc.st.field # << >> \/ acc.st.state = "IN_QUOTED_FIELD")
    THEN [error |-> FALSE, rows |-> Append(acc.rows, CsvSaveField(acc.st).fields)]
    ELSE [error |-> FALSE, rows |-> acc.rows]

RECURSIVE CsvRun(_, _, _)
\* the rows csv.reader yields from the character i of text on; StringIO ends a
\* line after each "\n" and at the end of the text
CsvRun(text, i, acc) ==
    IF acc.st.error THEN [error |-> TRUE, rows |-> acc.rows]
    ELSE IF i > Len(text) THEN CsvEnd(acc)
    ELSE CsvRun(text, i + 1, CsvFeed(acc, text[i], text[i] = "\n" \/ i = Len(text)))

\* list(csv.reader(StringIO(text), delimiter=",")); error where csv.Error is raised
CsvReader(text) == CsvRun(text, 1, [st |-> CsvStart, rows |-> << >>])

RECURSIVE Strip(_, _)
\* s.strip(c)
Strip(s, c) ==
    IF s # << >> /\ s[1] = c THEN Strip(Tail(s), c)
    ELSE IF s # << >> /\ s[Len(s)] = c THEN Strip(SubSeq(s, 1, Len(s) - 1), c)
    ELSE s

\* process_response_values: the list after it
ProcessResponseValues(values) ==
    [i \in 1..Len(values) |->
        LET v == Strip(values[i], "\"")
        IN  IF v = T_true THEN PyTrue
            ELSE IF v = T_false THEN PyFalse
            ELSE v]

\* process_response_values on any argument (type: "list", "str" or "NoneType"):
\* len(None) raises TypeError, and so does the assignment to values[0] of a
\* str, which an empty str never reaches
ProcessResponseValuesOf(arg) ==
    IF arg.type = "NoneType" THEN [raised |-> "TypeError", value |-> << >>]
    ELSE IF arg.type = "str"
    THEN [raised |-> IF Len(arg.value) = 0 THEN "none" ELSE "TypeError", value |-> << >>]
    ELSE [raised |-> "none", value |-> ProcessResponseValues(arg.value)]

RECURSIVE SplitFrom(_, _, _, _, _)
\* the pieces of s between the characters of seps, from the character i on:
\* cur is the piece under way, keep tells to leave an empty piece at the end
SplitFrom(s, seps, i, cur, keep) ==
    IF i > Len(s) THEN IF cur = << >> /\ ~keep THEN << >> ELSE <<cur>>
    ELSE IF s[i] = "\r" /\ "\r" \in seps /\ i < Len(s) /\ s[i + 1] = "\n"
    THEN <<cur>> \o SplitFrom(s, seps, i + 2, << >>, keep)
    ELSE IF s[i] \in seps THEN <<cur>> \o SplitFrom(s, seps, i + 1, << >>, keep)
    ELSE SplitFrom(s, seps, i + 1, Append(cur, s[i]), keep)

\* s.splitlines()
SplitLines(s) == SplitFrom(s, {"\n", "\r"}, 1, << >>, FALSE)

\* s.split(",")
Split(s) == SplitFrom(s, {","}, 1, << >>, TRUE)

RECURSIVE DictZipFrom(_, _, _, _)
DictZipFrom(d, header, data, i) ==
    IF i > Len(header) \/ i > Len(data) THEN d
    ELSE DictZipFrom(DictSet(d, header[i], data[i]), header, data, i + 1)

\* dict(zip(header, data))
DictZip(header, data) == DictZipFrom(<< >>, header, data, 1)

Min(a, b) == IF a < b THEN a ELSE b

\* dict_from_single_response that is graceful whatever it is told
DictFromRows_graceful(header, data, graceful) ==
    [raised |-> "none",
     value |-> DictZip(SubSeq(header, 1, Min(Len(header), Len(data))),
                       SubSeq(data, 1, Min(Len(header), Len(data))))]

\* dict_from_single_response from the header and the processed data line on
DictFromRows(header, data, graceful) ==
    IF Len(header) # Len(data) /\ ~graceful
    THEN [raised |-> "ValueError", value |-> << >>]
    ELSE [raised |-> "none",
          value |-> DictZip(SubSeq(header, 1, Min(Len(header), Len(data))),
                            SubSeq(data, 1, Min(Len(header), Len(data))))]

\* dict_from_single_response that takes any number of lines in both modes
DictFromLines_any(csv, graceful) ==
    IF csv.error \/ Len(csv.rows) < 2
    THEN [raised |-> "ValueError", value |-> << >>]
    ELSE DictFromRows(csv.rows[1], ProcessResponseValues(csv.rows[2]), graceful)

\* dict_from_single_response from the lines on: fewer than two lines end in
\* IndexError, every exception in ValueError
DictFromLines(csv, graceful) ==
    IF csv.error \/ (Len(csv.rows) # 2 /\ ~graceful) \/ Len(csv.rows) < 2
    THEN [raised |-> "ValueError", value |-> << >>]
    ELSE DictFromRows(csv.rows[1], ProcessResponseValues(csv.rows[2]), graceful)

\* dict_from_single_response: the dict, or the exception raised
DictFromSingleResponse(text, graceful) ==
    IF text = <<"\n", "\n">>
    THEN [raised |-> "none", value |-> << << << >>, << >> >> >>]
    ELSE DictFromLines(CsvReader(text), graceful)

RECURSIVE StripWhitespace(_)
\* s.strip()
StripWhitespace(s) ==
    IF s # << >> /\ s[1] \in {" ", "\t", "\n", "\r"} THEN StripWhitespace(Tail(s))
    ELSE IF s # << >> /\ s[Len(s)] \in {" ", "\t", "\n", "\r"}
    THEN StripWhitespace(SubSeq(s, 1, Len(s) - 1))
    ELSE s

\* the header of parse_multiline_response: the fields of the first line, stripped
HeaderFields(fields) == [i \in 1..Len(fields) |-> StripWhitespace(fields[i])]

RECURSIVE ParseRows(_, _, _, _, _)
\* one pass of the loop that leaves out the line that does not fit the header
ParseRow_skipping(lines, i, header, data, parsed, graceful) ==
    IF Len(header) # Len(data) /\ ~graceful
    THEN [raised |-> "ValueError", value |-> << >>]
    ELSE IF Len(header) # Len(data)
    THEN ParseRows(lines, i + 1, header, parsed, graceful)
    ELSE ParseRows(lines, i + 1, header, Append(parsed, DictZip(header, data)), graceful)

\* one pass of the loop that cuts the header for the line at hand only
ParseRow_stateless(lines, i, header, data, parsed, graceful) ==
    IF Len(header) # Len(data) /\ ~graceful
    THEN [raised |-> "ValueError", value |-> << >>]
    ELSE ParseRows(lines, i + 1, header,
                   Append(parsed, DictZip(SubSeq(header, 1, Min(Len(header), Len(data))),
                                          SubSeq(data, 1, Min(Len(header), Len(data))))),
                   graceful)

\* one pass of the loop of parse_multiline_response, on the processed fields
\* data of the line i, and the passes after it
ParseRow(lines, i, header, data, parsed, graceful) ==
    IF Len(header) # Len(data) /\ ~graceful
    THEN [raised |-> "ValueError", value |-> << >>]
    ELSE ParseRows(lines, i + 1, SubSeq(header, 1, Min(Len(header), Len(data))),
                   Append(parsed, DictZip(SubSeq(header, 1, Min(Len(header), Len(data))),
                                          SubSeq(data, 1, Min(Len(header), Len(data))))),
                   graceful)

\* the loop of parse_multiline_response from the line i on
ParseRows(lines, i, header, parsed, graceful) ==
    IF i > Len(lines) THEN [raised |-> "none", value |-> parsed]
    ELSE ParseRow(lines, i, header, ProcessResponseValues(Split(lines[i])), parsed, graceful)

\* parse_multiline_response whose handler turns NoDataError into ValueError
ParseLines_converted(lines, graceful) ==
    IF Len(lines) < 2
    THEN [raised |-> IF graceful THEN "none" ELSE "ValueError", value |-> << >>]
    ELSE ParseRows(lines, 2, HeaderFields(Split(lines[1])), << >>, graceful)

\* parse_multiline_response from the lines on
ParseLines(lines, graceful) ==
    IF Len(lines) < 2
    THEN [raised |-> IF graceful THEN "none" ELSE "NoDataError", value |-> << >>]
    ELSE ParseRows(lines, 2, HeaderFields(Split(lines[1])), << >>, graceful)

\* parse_multiline_response: the list of dicts, or the exception raised
ParseMultilineResponse(text, graceful) == ParseLines(SplitLines(text), graceful)

T_email == <<"e", "m", "a", "i", "l">>
T_active == <<"a", "c", "t", "i", "v", "e">>
T_unitlogin == <<"u", "n", "i", "t", "l", "o", "g", "i", "n">>
T_lname == <<"l", "n", "a", "m", "e">>
T_fname == <<"f", "n", "a", "m", "e">>
T_login == <<"l", "o", "g", "i", "n">>

\* PpmsUser.__init__ from the parsed response on
PpmsUserOf(parsed) ==
    IF parsed.raised # "none" THEN [raised |-> parsed.raised, user |-> None]
    ELSE IF \E k \in {T_login, T_email, T_active, T_unitlogin, T_lname, T_fname} :
                ~DictHas(parsed.value, k)
    THEN [raised |-> "KeyError", user |-> None]
    ELSE [raised |-> "none",
          user |-> [username |-> Str(DictGet(parsed.value, T_login)),
                    email |-> Str(DictGet(parsed.value, T_email)),
                    active |-> DictGet(parsed.value, T_active),
                    ppms_group |-> DictGet(parsed.value, T_unitlogin),
                    fullname_ |-> Str(DictGet(parsed.value, T_lname)) \o << " " >>
                                  \o Str(DictGet(parsed.value, T_fname))]]

\* PpmsUser.__init__: the user, or the exception raised
PpmsUser(response_text) == PpmsUserOf(DictFromSingleResponse(response_text, TRUE))

\* PpmsUser.fullname
Fullname(user) == IF user.fullname_ = << >> THEN user.username ELSE user.fullname_

-----------------------------------------------------------------------------
(* The callers and the server *)

K_k1 == <<"k", "1">>
P_c == <<"c">>
V_al == <<"a", "l">>
V_7 == <<"7">>
V_A == <<"A">>
T_id == <<"i", "d">>
T_type == <<"t", "y", "p", "e">>
T_newuser == <<"n", "e", "w", "u", "s", "e", "r">>
T_phone == <<"p", "h", "o", "n", "e">>
T_pwd == <<"p", "w", "d">>
T_OK_newuser == <<"O", "K", " ", "n", "e", "w", "u", "s", "e", "r">>
V_L == << "L" >>
V_F == << "F" >>
V_e == << "e" >>
V_g == << "g" >>
V_s3 == <<"s", "3">>
B_OK_newuser == T_OK_newuser
T_setright == <<"s", "e", "t", "r", "i", "g", "h", "t">>

B_empty == << >>
B_done == <<"d", "o", "n", "e">>
B_Error == <<"E", "r", "r", "o", "r", " ", "7">>
B_unauthorized == T_request_not_authorized
B_Unauthorized ==
    <<"R", "e", "q", "u", "e", "s", "t", " ", "N", "O", "T", " ",
      "a", "u", "t", "h", "o", "r", "i", "z", "e", "d">>
B_error_unauthorized ==
    <<"e", "r", "r", "o", "r", ":", " ", "r", "e", "q", "u", "e", "s", "t", " ",
      "n", "o", "t", " ", "a", "u", "t", "h", "o", "r", "i", "z", "e", "d">>

\* response bodies the server can send
Bodies == {B_empty, B_done, B_Error, B_unauthorized, B_Unauthorized, B_error_unauthorized}

\* HTTP status codes the server can send
StatusCodes == {200, 204, 500}

\* requests.post raises (no connection, timeout)
PostRaises == [raises |-> TRUE, text |-> None, status_code |-> -1]

\* requests.post on the auth request: it raises, or it returns a response
AuthNetOutcomes ==
    {PostRaises}
    \cup {[raises |-> FALSE, text |-> b, status_code |-> c] : b \in Bodies, c \in StatusCodes}

\* requests.post on the later requests: the server answers them with 200,
\* also when it refuses them (ppms.py:229), or fails with a server error
NetOutcomes ==
    {PostRaises}
    \cup {[raises |-> FALSE, text |-> b, status_code |-> 200] :
              b \in {B_empty, B_done, B_Unauthorized}}
    \cup {[raises |-> FALSE, text |-> B_done, status_code |-> 500]}

\* the outcomes of requests.post that a call can meet, out of those in nets:
\* a call served from the cache does not post
NetChoices(self, disk, action, parameters, skip_cache, nets) ==
    IF ~skip_cache /\ InterceptRead(self, disk, ReqData(self, action, parameters)).hit
    THEN {PostRaises}
    ELSE nets

\* the outcomes of the disk that a call can meet: only a call that got a
\* response on-line and has a cache path stores it
IoChoices(self, net) ==
    IF net.raises \/ self.cache_path = << >> THEN {"ok"} ELSE IoOutcomes

ApiKeys == {<< >>, K_k1}

CachePaths == {<< >>, P_c}

\* the <<action, parameters>> that callers of request() pass
RequestArgs ==
    { <<T_getuser, << <<T_login, V_al>> >> >>,
      <<T_setright, << <<T_id, V_7>>, <<T_login, V_al>>, <<T_type, V_A>> >> >>,
      <<T_setright, << <<T_type, V_A>>, <<T_login, V_al>>, <<T_id, V_7>> >> >> }

B_user ==
    <<"l", "o", "g", "i", "n", ",", "l", "n", "a", "m", "e", ",", "f", "n", "a", "m", "e", ",",
      "e", "m", "a", "i", "l", ",", "u", "n", "i", "t", "l", "o", "g", "i", "n", ",",
      "a", "c", "t", "i", "v", "e", "\n",
      "a", "l", ",", "L", ",", "F", ",", "e", ",", "g", ",", "t", "r", "u", "e", "\n">>

F_auth_response ==
    <<"c", "/", "a", "u", "t", "h", "/", "r", "e", "s", "p", "o", "n", "s", "e",
      ".", "t", "x", "t">>
F_auth_status ==
    <<"c", "/", "a", "u", "t", "h", "/", "r", "e", "s", "p", "o", "n", "s", "e",
      "_", "s", "t", "a", "t", "u", "s", "-", "c", "o", "d", "e", ".", "t", "x", "t">>
F_getuser_al ==
    <<"c", "/", "g", "e", "t", "u", "s", "e", "r", "/",
      "l", "o", "g", "i", "n", "-", "-", "a", "l", ".", "t", "x", "t">>
F_setright_7_al_A ==
    <<"c", "/", "s", "e", "t", "r", "i", "g", "h", "t", "/",
      "i", "d", "-", "-", "7", "_", "_", "l", "o", "g", "i", "n", "-", "-", "a", "l", "_", "_",
      "t", "y", "p", "e", "-", "-", "A", ".", "t", "x", "t">>
F_newuser_al ==
    <<"c", "/", "n", "e", "w", "u", "s", "e", "r", "/",
      "e", "m", "a", "i", "l", "-", "-", "e", "_", "_", "f", "n", "a", "m", "e", "-", "-", "F",
      "_", "_", "l", "n", "a", "m", "e", "-", "-", "L", "_", "_",
      "l", "o", "g", "i", "n", "-", "-", "a", "l", "_", "_",
      "u", "n", "i", "t", "l", "o", "g", "i", "n", "-", "-", "g", ".", "t", "x", "t">>
F_newuser_al_s3 ==
    <<"c", "/", "n", "e", "w", "u", "s", "e", "r", "/",
      "e", "m", "a", "i", "l", "-", "-", "e", "_", "_", "f", "n", "a", "m", "e", "-", "-", "F",
      "_", "_", "l", "n", "a", "m", "e", "-", "-", "L", "_", "_",
      "l", "o", "g", "i", "n", "-", "-", "a", "l", "_", "_", "p", "w", "d", "-", "-", "s", "3",
      "_", "_", "u", "n", "i", "t", "l", "o", "g", "i", "n", "-", "-", "g", ".", "t", "x", "t">>
D_c_auth == <<"c", "/", "a", "u", "t", "h">>
D_c_getuser == <<"c", "/", "g", "e", "t", "u", "s", "e", "r">>

\* the cache directories a run can start with: none, the mocked auth responses
\* of tests/test_ppms.py, and the record of an earlier session
InitialDisks ==
    { EmptyFs,
      [dirs |-> {P_c, D_c_auth},
       files |-> (F_auth_response :> B_done) @@ (F_auth_status :> <<"5", "0", "0">>)],
      [dirs |-> {P_c, D_c_auth},
       files |-> (F_auth_response :> B_Error)],
      [dirs |-> {P_c, D_c_auth, D_c_getuser},
       files |-> (F_auth_response :> B_done) @@ (F_getuser_al :> B_user)] }

T_getusers == <<"g", "e", "t", "u", "s", "e", "r", "s">>
D_c_getusers == <<"c", "/", "g", "e", "t", "u", "s", "e", "r", "s">>
F_getusers ==
    <<"c", "/", "g", "e", "t", "u", "s", "e", "r", "s", "/",
      "r", "e", "s", "p", "o", "n", "s", "e", ".", "t", "x", "t">>
B_al == <<"a", "l", "\n">>

\* the cache directories a run with flush_cache() can start with: none, and
\* one with responses of auth, getuser and getusers
FlushDisks ==
    { EmptyFs,
      [dirs |-> {P_c, D_c_auth, D_c_getuser, D_c_getusers},
       files |-> (F_auth_response :> B_done) @@ (F_getuser_al :> B_user)
                 @@ (F_getusers :> B_al)] }

\* the requests made around flush_cache(): get_user() and get_user_ids()
FlushRequestArgs ==
    { <<T_getuser, << <<T_login, V_al>> >> >>, <<T_getusers, << >> >> }

\* requests.post around flush_cache(): it raises, or the server answers
FlushNetOutcomes ==
    {PostRaises, [raises |-> FALSE, text |-> B_done, status_code |-> 200]}

\* new_user() is called to create the account al, with or without a password
Logins == {V_al}
Passwords == {None, V_s3}

\* requests.post on the getuser request of user_exists
GetUserNetOutcomes ==
    NetOutcomes \cup {[raises |-> FALSE, text |-> B_user, status_code |-> 200]}

\* requests.post on the newuser request
NewUserNetOutcomes ==
    {PostRaises}
    \cup {[raises |-> FALSE, text |-> b, status_code |-> 200] :
              b \in {B_OK_newuser, B_done, B_Unauthorized}}

-----------------------------------------------------------------------------
(* The public methods built on request() *)

\* get_user after its request r, which got a text that made the user: the two
\* dicts after it
GetUserStores(r, made, us, fm) ==
    IF made.raised # "none"
    THEN [r |-> r, raised |-> made.raised, users |-> us, fullname_mapping |-> fm]
    ELSE [r |-> r, raised |-> "none",
          users |-> DictSet(us, made.user.username, made.user),
          fullname_mapping |-> DictSet(fm, Fullname(made.user), made.user.username)]

\* get_user after its request r
GetUserAfter(r, us, fm) ==
    IF r.raised # "none"
    THEN [r |-> r, raised |-> r.raised, users |-> us, fullname_mapping |-> fm]
    ELSE IF r.response.text = << >>
    THEN [r |-> r, raised |-> "KeyError", users |-> us, fullname_mapping |-> fm]
    ELSE GetUserStores(r, PpmsUser(r.response.text), us, fm)

\* get_user: what request() did, the exception raised, and the two dicts after
GetUser(self, us, fm, disk, login_name, skip_cache, net, io, n) ==
    GetUserAfter(Request(self, disk, T_getuser, << <<T_login, login_name>> >>,
                         skip_cache, net, io, n),
                 us, fm)

\* the loop of update_users from the i-th of user_ids on: g is what the
\* get_user before it left, nets what requests.post does for each of user_ids
RECURSIVE UpdateUsersFrom(_, _, _, _, _)
UpdateUsersFrom(g, user_ids, i, nets, io) ==
    IF i > Len(user_ids) \/ g.raised # "none" THEN g
    ELSE UpdateUsersFrom(GetUser(g.r.self, g.users, g.fullname_mapping, g.r.disk,
                                 user_ids[i], TRUE, nets[i], io, g.r.call.n),
                         user_ids, i + 1, nets, io)

\* update_users for a list of user_ids that is not empty
UpdateUsers(self, us, fm, disk, user_ids, nets, io, call) ==
    UpdateUsersFrom([r |-> [self |-> self, disk |-> disk, call |-> call],
                     raised |-> "none", users |-> us, fullname_mapping |-> fm],
                    user_ids, 1, nets, io)

RECURSIVE SystemsMatchingFrom(_, _, _, _)
\* the loop of get_systems_matching over systems.items() from the i-th on
SystemsMatchingFrom(systems, loc, name_contains, i) ==
    IF i > Len(systems) THEN << >>
    ELSE (IF Contains(Lower(loc), Lower(Str(systems[i][2].localisation)))
             /\ \E n \in 1..Len(name_contains) :
                    Contains(name_contains[n], systems[i][2].name)
          THEN <<systems[i][1]>> ELSE << >>)
         \o SystemsMatchingFrom(systems, loc, name_contains, i + 1)

\* get_systems_matching on an object that has its systems: the list of IDs, or
\* the exception raised (type is the type of name_contains)
GetSystemsMatching(systems, localisation, type, name_contains) ==
    IF type = "str" THEN [raised |-> "TypeError", value |-> << >>]
    ELSE [raised |-> "none",
          value |-> SystemsMatchingFrom(systems, localisation, name_contains, 1)]

\* user_exists after its get_user: KeyError is turned into False
UserExistsAfter(g) ==
    [r |-> g.r, users |-> g.users, fullname_mapping |-> g.fullname_mapping,
     raised |-> IF g.raised = "KeyError" THEN "none" ELSE g.raised,
     exists |-> g.raised = "none"]

\* user_exists
UserExists(self, us, fm, disk, login, net, io, n) ==
    UserExistsAfter(GetUser(self, us, fm, disk, login, FALSE, net, io, n))

\* "if phone:", "if password:"
Truthy(v) == v # None /\ v # << >>

\* the req_data of new_user
NewUserReqData(args) ==
    << <<T_login, args.login>>, <<T_lname, args.lname>>, <<T_fname, args.fname>>,
       <<T_email, args.email>>, <<T_unitlogin, args.ppms_group>> >>
         \o (IF Truthy(args.phone) THEN << <<T_phone, args.phone>> >> ELSE << >>)
         \o (IF Truthy(args.password) THEN << <<T_pwd, args.password>> >> ELSE << >>)

-----------------------------------------------------------------------------
(* The connection object *)

Self ==
    [api_key |-> api_key, cache_path |-> cache_path,
     cache_users_only |-> cache_users_only, status |-> status,
     last_served_from_cache |-> last_served_from_cache]

\* the attributes of the object become those of s
Becomes(s) ==
    /\ api_key' = s.api_key
    /\ cache_path' = s.cache_path
    /\ cache_users_only' = s.cache_users_only
    /\ status' = s.status
    /\ last_served_from_cache' = s.last_served_from_cache

\* no new_user() call under way
NoFrame ==
    [login |-> None, lname |-> None, fname |-> None, email |-> None,
     ppms_group |-> None, phone |-> None, password |-> None]

\* no flush_cache() call yet
NoFlush == [at |-> -1, keep_users |-> FALSE, io |-> "ok", before |-> EmptyFs]

\* no function of common.py called
NoCodec ==
    [fn |-> "none", type |-> "NoneType", value |-> << >>, header |-> << >>, more |-> << >>,
     rows |-> << >>, systems |-> << >>, localisation |-> << >>, graceful |-> FALSE, done |-> FALSE, out |-> [raised |-> "none", value |-> << >>]]

\* a connection object before __init__
NoObject ==
    [pc |-> "none", api_key |-> << >>, cache_path |-> << >>, cache_users_only |-> FALSE,
     status |-> [auth_state |-> "NOT_TRIED", auth_response |-> None, auth_httpstatus |-> -1],
     last_served_from_cache |-> FALSE, users |-> << >>, fullname_mapping |-> << >>]

\* no request() call yet
NoCall ==
    [n |-> 0, io |-> "ok", auth_after |-> "NOT_TRIED", action |-> None, parameters |-> << >>, skip_cache |-> FALSE,
     served |-> "none", posts |-> 0, posted |-> NoResponse, had_file |-> FALSE,
     flag_before |-> FALSE, auth_before |-> "NOT_TRIED",
     file |-> None, response |-> NoResponse, raised |-> "none", named |-> None]

Init ==
    /\ pc = "none"
    /\ api_key = << >>
    /\ cache_path = << >>
    /\ cache_users_only = FALSE
    /\ status = [auth_state |-> "NOT_TRIED", auth_response |-> None, auth_httpstatus |-> -1]
    /\ last_served_from_cache = FALSE
    /\ fs \in InitialDisks
    /\ last = NoCall
    /\ exc = "none"
    /\ users = << >>
    /\ fullname_mapping = << >>
    /\ frame = NoFrame
    /\ flushed = NoFlush
    /\ peer = NoObject
    /\ codec = NoCodec
    /\ ret = None
    /\ ops = 0

\* __init__ without the test for a cache path
Construct_unchecked(key, cache, users_only) ==
    /\ pc = "none"
    /\ api_key' = key
    /\ cache_path' = cache
    /\ cache_users_only' = users_only
    /\ status' = [auth_state |-> "NOT_TRIED", auth_response |-> None, auth_httpstatus |-> -1]
    /\ last_served_from_cache' = FALSE
    /\ last' = NoCall
    /\ users' = << >>
    /\ fullname_mapping' = << >>
    /\ pc' = IF key # << >> THEN "authenticate" ELSE "ready"
    /\ exc' = "none"
    /\ UNCHANGED <<ret, fs, frame, flushed, peer, codec, ops>>

\* __init__ up to the call of __authenticate
Construct(key, cache, users_only) ==
    /\ pc = "none"
    /\ api_key' = key
    /\ cache_path' = cache
    /\ cache_users_only' = users_only
    /\ status' = [auth_state |-> "NOT_TRIED", auth_response |-> None, auth_httpstatus |-> -1]
    /\ last_served_from_cache' = FALSE
    /\ last' = NoCall
    /\ users' = << >>
    /\ fullname_mapping' = << >>
    /\ IF key # << >>
       THEN pc' = "authenticate" /\ exc' = "none"
       ELSE IF cache = << >>
       THEN pc' = "dead" /\ exc' = "RuntimeError"
       ELSE pc' = "ready" /\ exc' = "none"
    /\ UNCHANGED <<ret, fs, frame, flushed, peer, codec, ops>>

\* __authenticate that does not note the attempt
AuthAttempt_silent ==
    /\ pc = "authenticate"
    /\ pc' = "auth_request"
    /\ UNCHANGED <<ret, api_key, cache_path, cache_users_only, status, last_served_from_cache,
                   fs, last, exc, users, fullname_mapping, frame, flushed, peer, codec, ops>>

\* __authenticate up to the auth request
AuthAttempt ==
    /\ pc = "authenticate"
    /\ status' = [status EXCEPT !.auth_state = "attempting"]
    /\ pc' = "auth_request"
    /\ UNCHANGED <<ret, api_key, cache_path, cache_users_only, last_served_from_cache,
                   fs, last, exc, users, fullname_mapping, frame, flushed, peer, codec, ops>>

\* the verdict without the test of the status code
AuthVerdict_any_status(self, response) ==
    LET self1 == [self EXCEPT !.status.auth_response = response.text,
                              !.status.auth_httpstatus = response.status_code]
    IN  IF Contains(T_error, Lower(response.text))
        THEN [self |-> [self1 EXCEPT !.status.auth_state = "FAILED-ERROR"],
              raised |-> "ConnectionError"]
        ELSE [self |-> [self1 EXCEPT !.status.auth_state = "good"], raised |-> "none"]

\* the verdict that looks for "error" without lower()
AuthVerdict_exact_error(self, response) ==
    LET self1 == [self EXCEPT !.status.auth_response = response.text,
                              !.status.auth_httpstatus = response.status_code]
    IN  IF Contains(T_error, response.text)
        THEN [self |-> [self1 EXCEPT !.status.auth_state = "FAILED-ERROR"],
              raised |-> "ConnectionError"]
        ELSE IF response.status_code # status_ok
        THEN [self |-> [self1 EXCEPT !.status.auth_state = "FAILED-UNKNOWN"],
              raised |-> "ConnectionError"]
        ELSE [self |-> [self1 EXCEPT !.status.auth_state = "good"], raised |-> "none"]

\* the verdict of __authenticate on the response of the auth request
AuthVerdict(self, response) ==
    LET self1 == [self EXCEPT !.status.auth_response = response.text,
                              !.status.auth_httpstatus = response.status_code]
    IN  IF Contains(T_error, Lower(response.text))
        THEN [self |-> [self1 EXCEPT !.status.auth_state = "FAILED-ERROR"],
              raised |-> "ConnectionError"]
        ELSE IF response.status_code # status_ok
        THEN [self |-> [self1 EXCEPT !.status.auth_state = "FAILED-UNKNOWN"],
              raised |-> "ConnectionError"]
        ELSE [self |-> [self1 EXCEPT !.status.auth_state = "good"], raised |-> "none"]

\* __authenticate from the auth request on, and the end of __init__
AuthRequest(net, io) ==
    /\ pc = "auth_request"
    /\ \E r \in {Request(Self, fs, T_auth, << >>, FALSE, net, io, last.n)} :
       \E v \in {IF r.raised # "none"
                  THEN [self |-> r.self, raised |-> r.raised]
                  ELSE AuthVerdict(r.self, r.response)} :
           /\ Becomes(v.self)
           /\ fs' = r.disk
           /\ last' = r.call
           /\ exc' = v.raised
           /\ pc' = IF v.raised = "none" THEN "ready" ELSE "dead"
    /\ UNCHANGED <<ret, users, fullname_mapping, frame, flushed, peer, codec, ops>>

\* a call of request() that takes the failure of the POST for a refusal
DoRequest_failing(action, parameters, skip_cache, net, io) ==
    /\ pc = "ready"
    /\ ops < MaxOps
    /\ ops' = ops + 1
    /\ \E r \in {Request(Self, fs, action, parameters, skip_cache, net, io, last.n)} :
           /\ Becomes([r.self EXCEPT !.status.auth_state =
                           IF r.raised = "RequestException" THEN "FAILED" ELSE @])
           /\ fs' = r.disk
           /\ last' = r.call
           /\ exc' = r.raised
    /\ UNCHANGED <<ret, pc, users, fullname_mapping, frame, flushed, peer, codec>>

\* a call of request() that lets the failure of the store out
DoRequest_aborting(action, parameters, skip_cache, net, io) ==
    /\ pc = "ready"
    /\ ops < MaxOps
    /\ ops' = ops + 1
    /\ \E r \in {Request(Self, fs, action, parameters, skip_cache, net, io, last.n)} :
           /\ Becomes(r.self)
           /\ fs' = r.disk
           /\ last' = r.call
           /\ exc' = IF r.call.served = "online" /\ io # "ok" /\ r.raised = "none"
                     THEN "OSError" ELSE r.raised
    /\ UNCHANGED <<ret, pc, users, fullname_mapping, frame, flushed, peer, codec>>

\* a call of request() on the connection
DoRequest(action, parameters, skip_cache, net, io) ==
    /\ pc = "ready"
    /\ ops < MaxOps
    /\ ops' = ops + 1
    /\ \E r \in {Request(Self, fs, action, parameters, skip_cache, net, io, last.n)} :
           /\ Becomes(r.self)
           /\ fs' = r.disk
           /\ last' = r.call
           /\ exc' = r.raised
    /\ UNCHANGED <<ret, pc, users, fullname_mapping, frame, flushed, peer, codec>>

\* a call of flush_cache() on the connection
DoFlushCache(keep_users, io) ==
    /\ pc = "ready"
    /\ ops < MaxOps
    /\ ops' = ops + 1
    /\ \E f \in {FlushCache(Self, fs, keep_users, io)} :
           /\ fs' = f.disk
           /\ exc' = f.raised
    /\ flushed' = [at |-> ops', keep_users |-> keep_users, io |-> io, before |-> fs]
    /\ UNCHANGED <<ret, pc, api_key, cache_path, cache_users_only, status,
                   last_served_from_cache, last, users, fullname_mapping, frame, peer, codec>>

\* new_user up to the return of user_exists
NewUserExists(login, lname, fname, email, ppms_group, phone, password, net, io) ==
    /\ pc = "ready"
    /\ ops < MaxOps
    /\ ops' = ops + 1
    /\ \E u \in {UserExists(Self, users, fullname_mapping, fs, login, net, io, last.n)} :
           /\ Becomes(u.r.self)
           /\ fs' = u.r.disk
           /\ last' = u.r.call
           /\ users' = u.users
           /\ fullname_mapping' = u.fullname_mapping
           /\ exc' = u.raised
           /\ IF u.raised = "none" /\ ~u.exists
              THEN /\ pc' = "new_user"
                   /\ frame' = [login |-> login, lname |-> lname, fname |-> fname,
                                email |-> email, ppms_group |-> ppms_group,
                                phone |-> phone, password |-> password]
              ELSE UNCHANGED <<pc, frame>>
    /\ UNCHANGED <<ret, flushed, peer, codec>>

\* new_user from req_data on
NewUserRequest(net, io) ==
    /\ pc = "new_user"
    /\ \E r \in {Request(Self, fs, T_newuser, NewUserReqData(frame), FALSE, net, io, last.n)} :
           /\ Becomes(r.self)
           /\ fs' = r.disk
           /\ last' = r.call
           /\ exc' = IF r.raised # "none" THEN r.raised
                     ELSE IF ~Contains(T_OK_newuser, r.response.text) THEN "RuntimeError"
                     ELSE "none"
    /\ pc' = "ready"
    /\ frame' = NoFrame
    /\ UNCHANGED <<ret, users, fullname_mapping, flushed, peer, codec, ops>>

Next ==
    \/ \E key \in ApiKeys, cache \in CachePaths, users_only \in BOOLEAN :
           Construct(key, cache, users_only)
    \/ AuthAttempt
    \/ \E net \in NetChoices(Self, fs, T_auth, << >>, FALSE, AuthNetOutcomes) :
       \E io \in IoChoices(Self, net) :
           AuthRequest(net, io)
    \/ \E args \in RequestArgs, skip_cache \in BOOLEAN :
       \E net \in NetChoices(Self, fs, args[1], args[2], skip_cache, NetOutcomes) :
       \E io \in IoChoices(Self, net) :
           DoRequest(args[1], args[2], skip_cache, net, io)

Spec == Init /\ [][Next]_vars

\* the short names of the mapping of permission_name
PermissionNames == {<<"D">>, <<"A">>, <<"N">>, <<"S">>}

V_X == <<"X">>

\* the permission levels a caller passes: one of the mapping and one outside it
Permissions == {V_A, V_X}

B_Done_nl == <<"D", "o", "n", "e", "\n">>

\* requests.post on the setright request
SetRightNetOutcomes ==
    NetOutcomes
    \cup {[raises |-> FALSE, text |-> B_Done_nl, status_code |-> 200]}

\* the parameters of the setright request
SetRightParameters(system_id, login, permission) ==
    << <<T_id, system_id>>, <<T_login, login>>, <<T_type, permission>> >>

\* set_system_booking_permissions from the request on: what request() gave,
\* and the value returned
SetSystemBookingPermissions(self, disk, login, system_id, permission, net, io, n) ==
    LET r == Request(self, disk, T_setright,
                     SetRightParameters(system_id, login, permission), FALSE, net, io, n)
    IN  [r |-> r,
         value |-> IF r.raised # "none" THEN None
                   ELSE IF StripWhitespace(Lower(r.response.text)) = B_done THEN PyTrue
                   ELSE PyFalse]

\* a call of set_system_booking_permissions() on the connection
DoSetSystemBookingPermissions(login, system_id, permission, net, io) ==
    /\ pc = "ready"
    /\ ops < MaxOps
    /\ ops' = ops + 1
    /\ IF permission \notin PermissionNames
       THEN /\ exc' = "KeyError"
            /\ ret' = None
            /\ UNCHANGED <<api_key, cache_path, cache_users_only, status,
                           last_served_from_cache, fs, last>>
       ELSE \E s \in {SetSystemBookingPermissions(Self, fs, login, system_id, permission,
                                                  net, io, last.n)} :
                /\ Becomes(s.r.self)
                /\ fs' = s.r.disk
                /\ last' = s.r.call
                /\ exc' = s.r.raised
                /\ ret' = s.value
    /\ UNCHANGED <<pc, users, fullname_mapping, frame, flushed, peer, codec>>

\* the connection used through new_user()
NextMethods ==
    \/ \E key \in ApiKeys, cache \in CachePaths, users_only \in BOOLEAN :
           Construct(key, cache, users_only)
    \/ AuthAttempt
    \/ \E net \in NetChoices(Self, fs, T_auth, << >>, FALSE, AuthNetOutcomes) :
       \E io \in IoChoices(Self, net) :
           AuthRequest(net, io)
    \/ \E login \in Logins, password \in Passwords :
       \E net \in NetChoices(Self, fs, T_getuser, << <<T_login, login>> >>, FALSE,
                              GetUserNetOutcomes) :
       \E io \in IoChoices(Self, net) :
           NewUserExists(login, V_L, V_F, V_e, V_g, None, password, net, io)
    \/ \E net \in NetChoices(Self, fs, T_newuser, NewUserReqData(frame), FALSE,
                              NewUserNetOutcomes) :
       \E io \in IoChoices(Self, net) :
           NewUserRequest(net, io)

SpecMethods == Init /\ [][NextMethods]_vars

\* requests.post on the auth request of a session that goes on to set rights:
\* no connection, the answer of a server that accepts the key, and an error
RightsAuthNetOutcomes ==
    {PostRaises,
     [raises |-> FALSE, text |-> B_done, status_code |-> 200],
     [raises |-> FALSE, text |-> B_Error, status_code |-> 500]}

\* the connection used through set_system_booking_permissions() and new_user()
NextRights ==
    \/ \E key \in ApiKeys, cache \in CachePaths, users_only \in BOOLEAN :
           Construct(key, cache, users_only)
    \/ AuthAttempt
    \/ \E net \in NetChoices(Self, fs, T_auth, << >>, FALSE, RightsAuthNetOutcomes) :
       \E io \in IoChoices(Self, net) :
           AuthRequest(net, io)
    \/ \E permission \in Permissions :
       \E net \in NetChoices(Self, fs, T_setright, SetRightParameters(V_7, V_al, permission),
                              FALSE, SetRightNetOutcomes) :
       \E io \in IoChoices(Self, net) :
           DoSetSystemBookingPermissions(V_al, V_7, permission, net, io)
    \/ \E net \in NetChoices(Self, fs, T_getuser, << <<T_login, V_al>> >>, FALSE,
                              GetUserNetOutcomes) :
       \E io \in IoChoices(Self, net) :
           NewUserExists(V_al, V_L, V_F, V_e, V_g, None, None, net, io)
    \/ \E net \in NetChoices(Self, fs, T_newuser, NewUserReqData(frame), FALSE,
                              NewUserNetOutcomes) :
       \E io \in IoChoices(Self, net) :
           NewUserRequest(net, io)

SpecRights == Init /\ [][NextRights]_vars

\* the connection used through request() and flush_cache(), on a cache with
\* the directories of the test of flush_cache(keep_users=True)
InitFlush ==
    /\ pc = "none"
    /\ api_key = << >>
    /\ cache_path = << >>
    /\ cache_users_only = FALSE
    /\ status = [auth_state |-> "NOT_TRIED", auth_response |-> None, auth_httpstatus |-> -1]
    /\ last_served_from_cache = FALSE
    /\ fs \in FlushDisks
    /\ last = NoCall
    /\ exc = "none"
    /\ users = << >>
    /\ fullname_mapping = << >>
    /\ frame = NoFrame
    /\ flushed = NoFlush
    /\ peer = NoObject
    /\ codec = NoCodec
    /\ ret = None
    /\ ops = 0

NextFlush ==
    \/ \E key \in ApiKeys, cache \in CachePaths, users_only \in BOOLEAN :
           Construct(key, cache, users_only)
    \/ AuthAttempt
    \/ \E net \in NetChoices(Self, fs, T_auth, << >>, FALSE, FlushNetOutcomes) :
           AuthRequest(net, "ok")
    \/ \E args \in FlushRequestArgs, skip_cache \in BOOLEAN :
       \E net \in NetChoices(Self, fs, args[1], args[2], skip_cache, FlushNetOutcomes) :
           DoRequest(args[1], args[2], skip_cache, net, "ok")
    \/ \E keep_users \in BOOLEAN, io \in RmTreeOutcomes :
           DoFlushCache(keep_users, io)

SpecFlush == InitFlush /\ [][NextFlush]_vars

-----------------------------------------------------------------------------
\* a second cache root
P_d == <<"d">>

\* the attributes of the connection object that is called
Me ==
    [pc |-> pc, api_key |-> api_key, cache_path |-> cache_path,
     cache_users_only |-> cache_users_only, status |-> status,
     last_served_from_cache |-> last_served_from_cache,
     users |-> users, fullname_mapping |-> fullname_mapping]

\* the caller turns to its other connection object
Switch ==
    /\ pc \in {"none", "ready", "dead"}
    /\ peer' = Me
    /\ pc' = peer.pc
    /\ api_key' = peer.api_key
    /\ cache_path' = peer.cache_path
    /\ cache_users_only' = peer.cache_users_only
    /\ status' = peer.status
    /\ last_served_from_cache' = peer.last_served_from_cache
    /\ users' = peer.users
    /\ fullname_mapping' = peer.fullname_mapping
    /\ UNCHANGED <<ret, fs, last, exc, frame, flushed, codec, ops>>

\* a call of update_users(user_ids) on the connection
DoUpdateUsers(user_ids, nets, io) ==
    /\ pc = "ready"
    /\ ops < MaxOps
    /\ ops' = ops + 1
    /\ user_ids # << >>
    /\ \E u \in {UpdateUsers(Self, users, fullname_mapping, fs, user_ids, nets, io, last)} :
           /\ Becomes(u.r.self)
           /\ fs' = u.r.disk
           /\ last' = u.r.call
           /\ users' = u.users
           /\ fullname_mapping' = u.fullname_mapping
           /\ exc' = u.raised
    /\ UNCHANGED <<ret, pc, frame, flushed, peer, codec>>

\* the cache roots of the two objects
TwoCachePaths == {P_c, P_d}

\* requests.post for the two objects: it raises, or the server answers
TwoAuthNetOutcomes ==
    {PostRaises, [raises |-> FALSE, text |-> B_done, status_code |-> 200]}

TwoNetOutcomes ==
    {PostRaises, [raises |-> FALSE, text |-> B_user, status_code |-> 200],
     [raises |-> FALSE, text |-> B_Unauthorized, status_code |-> 200]}

\* the disk the two objects start on: nothing, or the cache of a former run
TwoDisks ==
    { EmptyFs,
      [dirs |-> {P_c, D_c_auth, D_c_getuser},
       files |-> (F_auth_response :> B_done) @@ (F_getuser_al :> B_done)] }

\* two connection objects with cache roots that differ, used in turn through
\* request(), update_users() and flush_cache()
InitTwo ==
    /\ pc = "none"
    /\ api_key = << >>
    /\ cache_path = << >>
    /\ cache_users_only = FALSE
    /\ status = [auth_state |-> "NOT_TRIED", auth_response |-> None, auth_httpstatus |-> -1]
    /\ last_served_from_cache = FALSE
    /\ fs \in TwoDisks
    /\ last = NoCall
    /\ exc = "none"
    /\ users = << >>
    /\ fullname_mapping = << >>
    /\ frame = NoFrame
    /\ flushed = NoFlush
    /\ peer = NoObject
    /\ codec = NoCodec
    /\ ret = None
    /\ ops = 0

NextTwo ==
    \/ \E key \in ApiKeys, cache \in TwoCachePaths \ {peer.cache_path}, users_only \in BOOLEAN :
           Construct(key, cache, users_only)
    \/ AuthAttempt
    \/ \E net \in NetChoices(Self, fs, T_auth, << >>, FALSE, TwoAuthNetOutcomes) :
           AuthRequest(net, "ok")
    \/ \E skip_cache \in BOOLEAN :
       \E net \in NetChoices(Self, fs, T_getuser, << <<T_login, V_al>> >>, skip_cache,
                              TwoNetOutcomes) :
           DoRequest(T_getuser, << <<T_login, V_al>> >>, skip_cache, net, "ok")
    \/ \E net \in TwoNetOutcomes :
           DoUpdateUsers(<<V_al>>, <<net>>, "ok")
    \/ \E keep_users \in BOOLEAN :
           DoFlushCache(keep_users, "ok")
    \/ Switch

SpecTwo == InitTwo /\ [][NextTwo]_vars

\* the most fields of a line
MaxFields == 2

\* the fields that the lines are made of
Tokens ==
    { << >>, <<"a">>, <<"1">>, <<"'", "a", "'">>, <<"\"", "a", "\"">>,
      T_true, T_false, <<"T", "r", "u", "e">>,
      <<"\"">> \o T_true \o <<"\"">>, <<"\"">> \o T_false \o <<"\"">>,
      <<"\"", "a">>, T_true \o <<"\"">>, <<"a", "\"", "a">>,
      <<"\"", "\"">> \o T_false \o <<"\"", "\"">>,
      <<"\"", "a", ",", "a", "\"">> }

\* the names of the header line
HeaderNames == <<"x", "y", "z", "w">>

\* the lists of n fields
Lists(n) == [1..n -> Tokens]

RECURSIVE JoinFrom(_, _, _)
JoinFrom(fields, sep, i) ==
    IF i > Len(fields) THEN << >>
    ELSE (IF i > 1 THEN <<sep>> ELSE << >>) \o fields[i] \o JoinFrom(fields, sep, i + 1)

\* sep.join(fields)
Join(fields, sep) == JoinFrom(fields, sep, 1)

\* the header line of n fields
HeaderOf(n) == [i \in 1..n |-> <<HeaderNames[i]>>]

\* the two-line response with the header and the data line given
TwoLines(header, data) == Join(header, ",") \o <<"\n">> \o Join(data, ",")

\* the calls of process_response_values: on lists of fields, on one str, on None
ProcessCalls ==
    { [NoCodec EXCEPT !.fn = "process_response_values", !.type = "list", !.value = l] :
          l \in UNION { Lists(n) : n \in 0..MaxFields } }
    \cup { [NoCodec EXCEPT !.fn = "process_response_values", !.type = "str", !.value = <<s>>] :
               s \in Tokens }
    \cup { [NoCodec EXCEPT !.fn = "process_response_values"] }

\* the lines after the data line: none, one, two
MoreLines == { << >>, << <<"a">> >>, << <<"a">>, T_true >> }

\* the response of the lines given
TextOf(lines) == Join(lines, "\n")

\* the calls of dict_from_single_response: on a header line and a data line,
\* of as many fields or not, and on these with more lines after them
DictCalls ==
    { [NoCodec EXCEPT !.fn = "dict_from_single_response", !.type = "str",
                      !.value = l, !.header = HeaderOf(h), !.graceful = g] :
          l \in UNION { Lists(n) : n \in 1..MaxFields }, h \in 1..MaxFields, g \in BOOLEAN }
    \cup
    { [NoCodec EXCEPT !.fn = "dict_from_single_response", !.type = "str",
                      !.value = l, !.header = HeaderOf(h), !.more = m, !.graceful = g] :
          l \in Lists(1), h \in 1..MaxFields, m \in MoreLines \ {<< >>}, g \in BOOLEAN }

\* the calls of dict_from_single_response on no line and on one line
ShortCalls ==
    { [NoCodec EXCEPT !.fn = "dict_from_short_response", !.type = "str",
                      !.value = <<t>>, !.graceful = g] :
          t \in {<< >>, <<"\n">>, <<"x">>, <<"x", "\n">>, <<"x", ",", "y">>},
          g \in BOOLEAN }

\* the most data lines of a table
MaxRows == 2

\* the fields that the data lines of a table are made of
TableTokens == {<<"a">>, <<"\"">> \o T_true \o <<"\"">>}

\* the data lines of a table
TableRows == UNION { [1..n -> TableTokens] : n \in 1..MaxFields }

\* the header lines of a table: none, or the names with blanks around the
\* first, one name more than MaxFields at most, for a header longer than every
\* data line
TableHeaders ==
    {<< >>} \cup { [i \in 1..n |-> IF i = 1 THEN <<" ", HeaderNames[1], " ">>
                                   ELSE <<HeaderNames[i]>>] : n \in 1..(MaxFields + 1) }

\* the calls of parse_multiline_response: on no line, on a header line, and on
\* a header line with data lines
TableCalls ==
    { [NoCodec EXCEPT !.fn = "parse_multiline_response", !.type = "str",
                      !.header = h, !.rows = r, !.graceful = g] :
          h \in TableHeaders,
          r \in UNION { [1..n -> TableRows] : n \in 0..MaxRows },
          g \in BOOLEAN }

\* the text of a table
TableText(header, rows) ==
    IF header = << >> THEN << >>
    ELSE TextOf(<<Join(header, ",")>> \o [i \in 1..Len(rows) |-> Join(rows[i], ",")])

\* the functions of common.py, each called once on an argument
InitCodec ==
    /\ pc = "none"
    /\ api_key = << >>
    /\ cache_path = << >>
    /\ cache_users_only = FALSE
    /\ status = [auth_state |-> "NOT_TRIED", auth_response |-> None, auth_httpstatus |-> -1]
    /\ last_served_from_cache = FALSE
    /\ fs = EmptyFs
    /\ last = NoCall
    /\ exc = "none"
    /\ users = << >>
    /\ fullname_mapping = << >>
    /\ frame = NoFrame
    /\ flushed = NoFlush
    /\ peer = NoObject
    /\ codec \in ProcessCalls \cup DictCalls \cup ShortCalls \cup TableCalls
    /\ ret = None
    /\ ops = 0

\* the call of process_response_values(values)
CallProcessResponseValues ==
    /\ codec.fn = "process_response_values"
    /\ ~codec.done
    /\ codec' = [codec EXCEPT !.done = TRUE,
                              !.out = ProcessResponseValuesOf(
                                          [type |-> codec.type,
                                           value |-> IF codec.type = "str" THEN codec.value[1]
                                                     ELSE codec.value])]
    /\ UNCHANGED <<ret, pc, api_key, cache_path, cache_users_only, status,
                   last_served_from_cache, fs, last, exc, users, fullname_mapping, frame,
                   flushed, peer, ops>>

\* the call of dict_from_single_response(text, graceful)
CallDictFromSingleResponse ==
    /\ codec.fn = "dict_from_single_response"
    /\ ~codec.done
    /\ codec' = [codec EXCEPT !.done = TRUE,
                              !.out = DictFromSingleResponse(
                                          TextOf(<<TwoLines(codec.header, codec.value)>>
                                                 \o codec.more),
                                          codec.graceful)]
    /\ UNCHANGED <<ret, pc, api_key, cache_path, cache_users_only, status,
                   last_served_from_cache, fs, last, exc, users, fullname_mapping, frame,
                   flushed, peer, ops>>

\* the call of dict_from_single_response(text, graceful) on a text of less
\* than two lines
CallDictFromShortResponse ==
    /\ codec.fn = "dict_from_short_response"
    /\ ~codec.done
    /\ codec' = [codec EXCEPT !.done = TRUE,
                              !.out = DictFromSingleResponse(codec.value[1], codec.graceful)]
    /\ UNCHANGED <<ret, pc, api_key, cache_path, cache_users_only, status,
                   last_served_from_cache, fs, last, exc, users, fullname_mapping, frame,
                   flushed, peer, ops>>

\* the call of parse_multiline_response(text, graceful)
CallParseMultilineResponse ==
    /\ codec.fn = "parse_multiline_response"
    /\ ~codec.done
    /\ codec' = [codec EXCEPT !.done = TRUE,
                              !.out = ParseMultilineResponse(TableText(codec.header, codec.rows),
                                                             codec.graceful)]
    /\ UNCHANGED <<ret, pc, api_key, cache_path, cache_users_only, status,
                   last_served_from_cache, fs, last, exc, users, fullname_mapping, frame,
                   flushed, peer, ops>>

NextCodec ==
    \/ CallProcessResponseValues
    \/ CallDictFromSingleResponse
    \/ CallDictFromShortResponse
    \/ CallParseMultilineResponse

SpecCodec == InitCodec /\ [][NextCodec]_vars

\* the systems that self.systems holds, by system ID
SystemDetails ==
    { [name |-> n, localisation |-> l] :
          n \in {<<"a", "b">>, <<"b">>}, l \in {<<"R">>, <<"r", "1">>} }

SystemDicts ==
    { << <<1, a>> >> : a \in SystemDetails }
    \cup { << <<1, a>>, <<2, b>> >> : a \in SystemDetails, b \in SystemDetails }

\* the calls of get_systems_matching: name_contains a list of str, or a str
SystemsCalls ==
    { [NoCodec EXCEPT !.fn = "get_systems_matching", !.type = "list", !.systems = d,
                      !.localisation = l, !.value = n] :
          d \in SystemDicts, l \in {<< >>, <<"r">>, <<"1">>},
          n \in {<< >>, << <<"a">> >>, << <<"b">> >>, << <<"c">>, <<"a">> >>} }
    \cup
    { [NoCodec EXCEPT !.fn = "get_systems_matching", !.type = "str", !.systems = d,
                      !.value = << <<"a">> >>] : d \in SystemDicts }

\* get_systems_matching called once on a connection that has its systems
InitSystems ==
    /\ pc = "none"
    /\ api_key = << >>
    /\ cache_path = << >>
    /\ cache_users_only = FALSE
    /\ status = [auth_state |-> "NOT_TRIED", auth_response |-> None, auth_httpstatus |-> -1]
    /\ last_served_from_cache = FALSE
    /\ fs = EmptyFs
    /\ last = NoCall
    /\ exc = "none"
    /\ users = << >>
    /\ fullname_mapping = << >>
    /\ frame = NoFrame
    /\ flushed = NoFlush
    /\ peer = NoObject
    /\ codec \in SystemsCalls
    /\ ret = None
    /\ ops = 0

\* the call of get_systems_matching(localisation, name_contains)
CallGetSystemsMatching ==
    /\ codec.fn = "get_systems_matching"
    /\ ~codec.done
    /\ codec' = [codec EXCEPT !.done = TRUE,
                              !.out = GetSystemsMatching(codec.systems, codec.localisation,
                                                         codec.type,
                                                         IF codec.type = "str" THEN codec.value[1]
                                                         ELSE codec.value)]
    /\ UNCHANGED <<ret, pc, api_key, cache_path, cache_users_only, status,
                   last_served_from_cache, fs, last, exc, users, fullname_mapping, frame,
                   flushed, peer, ops>>

NextSystems == CallGetSystemsMatching

SpecSystems == InitSystems /\ [][NextSystems]_vars

(* What the claims speak of, stated without the operators of the model *)

\* the texts a response can carry
Texts == Bodies \cup {B_user, B_OK_newuser}

\* the texts that contain "request not authorized" in some letter case
MarkerTexts == {B_unauthorized, B_Unauthorized, B_error_unauthorized}

\* the texts that contain "error" in some letter case
ErrorTexts == {B_Error, B_error_unauthorized}

\* root/<action>/<signature>.txt for the requests made, below the root "c"
ExpectedFile(call) ==
    IF call.action = T_auth THEN F_auth_response
    ELSE IF call.action = T_getuser THEN F_getuser_al
    ELSE IF call.action = T_setright THEN F_setright_7_al_A
    ELSE IF call.action = T_getusers THEN F_getusers
    ELSE IF Len(call.parameters) = 5 THEN F_newuser_al
    ELSE F_newuser_al_s3

\* the cache is configured and the action is not excluded from it
CachingEnabled(action) ==
    cache_path = P_c /\ ~(cache_users_only /\ action # T_getuser)

\* the step is a call of request()
IsCall == last'.n = last.n + 1

\* the same action with the same parameters, in whatever order
SameRequest(c1, c2) ==
    /\ c1.action = c2.action
    /\ {c1.parameters[i] : i \in 1..Len(c1.parameters)}
         = {c2.parameters[i] : i \in 1..Len(c2.parameters)}

\* the call got a response from the server
Answered(call) == call.posted # NoResponse

\* __init__ has ended for a connection with an API key, and nothing was called since
Constructed == api_key # << >> /\ pc \in {"ready", "dead"} /\ ops = 0

-----------------------------------------------------------------------------
(* C1 *)

\* C1: with the cache enabled for the action and no cache file for the request,
\* request() goes on-line and (the server answering and the disk taking the
\* file) writes the body to root/<action>/<signature>.txt; the identical
\* request right after it, skip_cache false, is served from that file, sets
\* last_served_from_cache and posts nothing.
C1_MissThenHit ==
    [][IsCall =>
        /\ (CachingEnabled(last'.action) /\ ~FileExists(fs, ExpectedFile(last')))
            => /\ last'.served = "online"
               /\ last'.posts = 1
               /\ (Answered(last') /\ last'.io = "ok")
                   => /\ FileExists(fs', ExpectedFile(last'))
                      /\ fs'.files[ExpectedFile(last')] = last'.posted.text
        /\ ( /\ CachingEnabled(last.action)
             /\ last.n > 0 /\ ~last.had_file /\ Answered(last) /\ last.io = "ok"
             /\ SameRequest(last, last')
             /\ ~last'.skip_cache )
            => /\ last'.served = "cache"
               /\ last'.posts = 0
               /\ last_served_from_cache'
               /\ last'.response.text = last.posted.text
               /\ last'.file = ExpectedFile(last)
    ]_vars

\* a setright request is served from the file that the call before it stored
C1_Witness ==
    /\ last.served = "cache"
    /\ last.action = T_setright
    /\ ~last.flag_before
    /\ last_served_from_cache

-----------------------------------------------------------------------------
(* C2 *)

-----------------------------------------------------------------------------
(* C3 *)

\* C3: after every request() call, returned or raised, last_served_from_cache
\* is true exactly if that call got its response from the cache.
C3_FlagTellsLastCall ==
    last.n > 0 => (last_served_from_cache <=> last.served = "cache")

-----------------------------------------------------------------------------
(* C4 *)

\* the dicts with the items of d in another insertion order: every order of
\* up to three items; of more items, the orders that exchange two of them and
\* the reversed order
Orders(d) ==
    LET n == Len(d)
    IN  IF n <= 3
        THEN { [i \in 1..n |-> d[f[i]]] :
                 f \in {g \in [1..n -> 1..n] : \A i, j \in 1..n : g[i] = g[j] => i = j} }
        ELSE { [i \in 1..n |-> d[IF i = a THEN b ELSE IF i = b THEN a ELSE i]] :
                 a \in 1..n, b \in 1..n }
             \cup { [i \in 1..n |-> d[n + 1 - i]] }

K_k2 == <<"k", "2">>

\* C4: the cache file of a request is the same for every insertion order of
\* its parameters and for every API key of the connection.
C4_SignatureOfSet ==
    last.n > 0 =>
        \A key \in {<< >>, K_k1, K_k2} :
        \A parameters \in Orders(last.parameters) :
            LET other == [Self EXCEPT !.api_key = key]
                file == InterceptionPath(other, fs,
                            ReqData(other, last.action, parameters), FALSE, "ok").file
            IN  /\ file = InterceptionPath(Self, fs,
                              ReqData(Self, last.action, last.parameters), FALSE, "ok").file
                /\ CachingEnabled(last.action) => file = ExpectedFile(last)

\* a request whose parameters were not given in sorted order got its file
C4_Witness ==
    /\ last.parameters = << <<T_type, V_A>>, <<T_login, V_al>>, <<T_id, V_7>> >>
    /\ last.file = F_setright_7_al_A
    /\ api_key = K_k1

-----------------------------------------------------------------------------
(* C5 *)

\* the secrets a call of request() is made with: the API key of the
\* connection and the password passed to new_user()
Secrets(call) ==
    {api_key} \cup {call.parameters[i][2] :
                       i \in {j \in 1..Len(call.parameters) : call.parameters[j][1] = T_pwd}}

\* C5: no secret value (the API key, a user password) appears in the path of
\* the cache file that a request is stored under.
C5_NoSecretInPath ==
    (last.n > 0 /\ last.file # None /\ FileExists(fs, last.file))
        => \A secret \in Secrets(last) \ {<< >>} : ~Contains(secret, last.file)

-----------------------------------------------------------------------------
(* C6 *)

\* C6: a request() call whose response, cached or on-line, contains the
\* refusal in any letter case sets auth_state to FAILED, whatever it was, and
\* raises ConnectionError naming the action; any other response is returned
\* as it is, and auth_state stays as it was.
C6_RefusalFails ==
    (last.n > 0 /\ last.response # NoResponse) =>
        IF last.response.text \in MarkerTexts
        THEN /\ last.auth_after = "FAILED"
             /\ last.raised = "ConnectionError"
             /\ last.named = last.action
        ELSE /\ last.raised = "none"
             /\ last.auth_after = last.auth_before
             /\ last.served = "online" => last.response = last.posted
             /\ last.served = "cache" =>
                    last.response.text = fs.files[ExpectedFile(last)]

\* a refusal in mixed case, served from the cache, failed the call
C6_Witness ==
    /\ last.served = "cache"
    /\ last.response.text = B_Unauthorized
    /\ last.raised = "ConnectionError"
    /\ status.auth_state = "FAILED"

-----------------------------------------------------------------------------
(* C7 *)

TerminalStates == {"good", "FAILED", "FAILED-ERROR", "FAILED-UNKNOWN"}

\* a move along NOT_TRIED -> attempting -> terminal state, or none
Forward(a, b) ==
    \/ a = b
    \/ a = "NOT_TRIED" /\ b = "attempting"
    \/ a = "attempting" /\ b \in TerminalStates

\* C7: auth_state only moves forward along NOT_TRIED -> attempting ->
\* {good, FAILED, FAILED-ERROR, FAILED-UNKNOWN}; once it is terminal, no later
\* operation on the object changes it.
C7_TerminalForever ==
    [][Forward(status.auth_state, status'.auth_state)]_vars

\* C7 as amended: besides the moves forward, the only change of auth_state is
\* to FAILED, from NOT_TRIED or good, by a request() call whose response
\* contains the refusal; a FAILED variant is never left.
C7_ForwardOrRefused ==
    [][\/ Forward(status.auth_state, status'.auth_state)
       \/ /\ status.auth_state \in {"NOT_TRIED", "good"}
          /\ status'.auth_state = "FAILED"
          /\ IsCall
          /\ last'.response.text \in MarkerTexts
    ]_vars

\* a connection that was good was refused a request
C7_Witness ==
    /\ pc = "ready"
    /\ status.auth_state = "FAILED"
    /\ last.auth_before = "good"

-----------------------------------------------------------------------------
(* C8 *)

\* the texts that contain neither "error" nor the refusal
SuccessTexts == {B_empty, B_done, B_user}

\* __init__ returned and auth_state is good
EndedGood == pc = "ready" /\ exc = "none" /\ status.auth_state = "good"

\* __init__ raised and auth_state is not good
EndedRaising == pc = "dead" /\ exc # "none" /\ status.auth_state # "good"

\* C8: construction with an API key ends good exactly if the auth response
\* has a status of 200..299 and a body with neither "error" nor the refusal;
\* otherwise it raises and auth_state is not good.
C8_GoodIff2xx ==
    Constructed =>
        /\ EndedGood <=> /\ last.response # NoResponse
                         /\ last.response.status_code \in 200..299
                         /\ last.response.text \in SuccessTexts
        /\ EndedGood \/ EndedRaising

\* C8 as amended: the status has to be 200.
C8_GoodIff200 ==
    Constructed =>
        /\ EndedGood <=> /\ last.response # NoResponse
                         /\ last.response.status_code = 200
                         /\ last.response.text \in SuccessTexts
        /\ EndedGood \/ EndedRaising

\* a connection was authenticated on-line
C8_Witness ==
    /\ Constructed
    /\ EndedGood
    /\ last.served = "online"
    /\ status.auth_response = B_done

-----------------------------------------------------------------------------
(* C9 *)

\* construction ended with FAILED-ERROR, raising ConnectionError, and the
\* status holds the response
EndedFailedError ==
    /\ pc = "dead"
    /\ exc = "ConnectionError"
    /\ status.auth_state = "FAILED-ERROR"
    /\ status.auth_response = last.response.text
    /\ status.auth_httpstatus = last.response.status_code

\* C9: an auth response whose body contains "error" in any letter case ends
\* construction with FAILED-ERROR and ConnectionError, whatever its status
\* code, and auth_response and auth_httpstatus hold its body and status.
C9_ErrorFails ==
    (Constructed /\ last.response.text \in ErrorTexts) => EndedFailedError

\* C9 as amended: unless the body also contains the refusal.
C9_ErrorWithoutRefusalFails ==
    (Constructed /\ last.response.text \in ErrorTexts \ MarkerTexts) => EndedFailedError

\* an error body with a status other than 200 ended in FAILED-ERROR
C9_Witness ==
    /\ Constructed
    /\ last.response = [text |-> B_Error, status_code |-> 500]
    /\ EndedFailedError

-----------------------------------------------------------------------------
(* C10 *)

EndedFailedUnknown ==
    pc = "dead" /\ exc = "ConnectionError" /\ status.auth_state = "FAILED-UNKNOWN"

\* C10: an auth response without "error" in its body and with a status
\* outside 200..299 ends construction with FAILED-UNKNOWN and
\* ConnectionError, and FAILED-UNKNOWN occurs for no status in 200..299.
C10_UnknownIffNot2xx ==
    Constructed =>
        /\ ( /\ last.response # NoResponse
             /\ last.response.text \notin ErrorTexts
             /\ last.response.status_code \notin 200..299 ) => EndedFailedUnknown
        /\ status.auth_state = "FAILED-UNKNOWN" =>
               last.response.status_code \notin 200..299

\* C10 as amended: the body contains neither "error" nor the refusal, and the
\* status is another one than 200.
C10_UnknownIffNot200 ==
    Constructed =>
        /\ ( /\ last.response # NoResponse
             /\ last.response.text \notin ErrorTexts \cup MarkerTexts
             /\ last.response.status_code # 200 ) => EndedFailedUnknown
        /\ status.auth_state = "FAILED-UNKNOWN" => last.response.status_code # 200

\* the mocked auth response with status 500 ended in FAILED-UNKNOWN
C10_Witness ==
    /\ Constructed
    /\ last.served = "cache"
    /\ last.response = [text |-> B_done, status_code |-> 500]
    /\ EndedFailedUnknown

-----------------------------------------------------------------------------
(* C11 *)

\* C11: an auth response whose body is "request not authorized" makes the
\* constructor raise ConnectionError, and auth_state ends in FAILED.
C11_RefusedAuthFails ==
    (Constructed /\ last.response.text = B_unauthorized) =>
        /\ pc = "dead"
        /\ exc = "ConnectionError"
        /\ status.auth_state = "FAILED"

\* the server refused the auth request of a connection
C11_Witness ==
    /\ Constructed
    /\ last.action = T_auth
    /\ last.served = "online"
    /\ last.response.text = B_unauthorized
    /\ status.auth_state = "FAILED"

-----------------------------------------------------------------------------
(* C12 *)

\* __init__ has ended for a connection without API key, and nothing was called since
ConstructedWithoutKey == api_key = << >> /\ pc \in {"ready", "dead"} /\ ops = 0

\* C12: construction with an empty API key and an empty cache path raises
\* RuntimeError and issues no request; with an empty API key and a cache path
\* it returns, issues no request, and auth_state stays NOT_TRIED.
C12_CacheOnlyOrRefuse ==
    ConstructedWithoutKey =>
        /\ last = NoCall
        /\ fs \in InitialDisks
        /\ status.auth_state = "NOT_TRIED"
        /\ IF cache_path = << >>
           THEN pc = "dead" /\ exc = "RuntimeError"
           ELSE pc = "ready" /\ exc = "none"

\* a connection without API key was made on a cache path
C12_Witness ==
    /\ ConstructedWithoutKey
    /\ cache_path = P_c
    /\ pc = "ready"
    /\ status.auth_state = "NOT_TRIED"

-----------------------------------------------------------------------------
(* C13 *)

\* C13: the response (body, status code) that request() got on-line and
\* stored in the cache is, body and status code, the response of the
\* identical request served from the cache right after it.
C13_StoredIsServed ==
    [][( /\ IsCall
         /\ last.n > 0
         /\ last.served = "online"
         /\ Answered(last)
         /\ last.io = "ok"
         /\ CachingEnabled(last.action)
         /\ SameRequest(last, last')
         /\ last'.served = "cache" )
        => /\ last'.response.text = last.posted.text
           /\ last'.response.status_code = last.posted.status_code]_vars

-----------------------------------------------------------------------------
(* C14 *)

\* the lookup of the call is a miss: no cache root, or an action excluded by
\* cache_users_only, or no file for the request on the disk
MissExpected(call, disk) ==
    \/ cache_path = << >>
    \/ cache_users_only /\ call.action # T_getuser
    \/ ~FileExists(disk, ExpectedFile(call))

\* C14: a request() call whose lookup is a miss goes on-line, and the miss
\* raises nothing: the response the server gives is returned (unless it
\* carries the refusal).  With cache_users_only set, the call of another
\* action than getuser writes nothing to the disk; without a cache root no
\* call reads or writes the disk.
C14_MissGoesOnline ==
    [][IsCall =>
        /\ MissExpected(last', fs) =>
              /\ last'.served = "online"
              /\ last'.posts = 1
              /\ Answered(last') =>
                    /\ last'.response = last'.posted
                    /\ last'.response.text \notin MarkerTexts => last'.raised = "none"
              /\ ~Answered(last') => last'.raised = "RequestException"
        /\ (cache_users_only /\ last'.action # T_getuser) => fs' = fs
        /\ cache_path = << >> => (fs' = fs /\ last'.served = "online")
    ]_vars

\* with cache_users_only set, a setright request was answered on-line and not stored
C14_Witness ==
    /\ cache_path = P_c
    /\ cache_users_only
    /\ last.action = T_setright
    /\ Answered(last)
    /\ last.raised = "none"
    /\ ~FileExists(fs, F_setright_7_al_A)

-----------------------------------------------------------------------------
(* C15 *)

\* the step is a call of flush_cache() in which shutil.rmtree works
IsFlush == ops' = ops + 1 /\ flushed'.at = ops' /\ flushed'.io = "ok"

\* the path is the one of a getuser entry of the cache root "c"
GetUserEntry(p) == Len(p) > 10 /\ SubSeq(p, 1, 10) = D_c_getuser \o << "/" >>

\* flush_cache() was the call before this one, and shutil.rmtree worked in it
JustFlushed == flushed.at = ops /\ flushed.io = "ok"

\* C15: flush_cache(keep_users=False) removes the whole cache root, and the
\* request after it is a miss; flush_cache(keep_users=True) removes the
\* entries of every action but getuser, those of getusers too, and leaves the
\* getuser entries as they are: the getuser request that has its file before
\* the flush is a hit with the body of that file after it.
C15_FlushKeepsUsers ==
    [][ /\ (IsFlush /\ cache_path # << >> /\ ~flushed'.keep_users)
            => fs'.dirs = {} /\ DOMAIN fs'.files = {}
        /\ (IsFlush /\ cache_path # << >> /\ flushed'.keep_users)
            => /\ DOMAIN fs'.files = {p \in DOMAIN fs.files : GetUserEntry(p)}
               /\ \A p \in DOMAIN fs'.files : fs'.files[p] = fs.files[p]
        /\ (IsCall /\ JustFlushed /\ ~flushed.keep_users)
            => last'.served = "online"
        /\ (IsCall /\ JustFlushed /\ flushed.keep_users /\ cache_path # << >>)
            => IF last'.action = T_getuser
               THEN (FileExists(flushed.before, ExpectedFile(last')) /\ ~last'.skip_cache)
                       => /\ last'.served = "cache"
                          /\ last'.response.text = flushed.before.files[ExpectedFile(last')]
               ELSE last'.served = "online"
    ]_vars

\* after flush_cache(keep_users=True) had removed the getusers entry, the
\* getuser request was served from the cache
C15_Witness ==
    /\ flushed.keep_users
    /\ flushed.at = ops - 1
    /\ flushed.io = "ok"
    /\ FileExists(flushed.before, F_getusers)
    /\ ~FileExists(fs, F_getusers)
    /\ last.action = T_getuser
    /\ last.served = "cache"
    /\ last.response.text = B_user

-----------------------------------------------------------------------------
(* C16 *)

\* C16: a request() call posts at most once; if the POST raises, the call
\* raises that error, the disk is as before and auth_state is as before.
C16_PostFailurePropagates ==
    [][IsCall =>
        /\ last'.posts \in {0, 1}
        /\ (last'.posts = 1 /\ ~Answered(last'))
            => /\ last'.raised = "RequestException"
               /\ exc' = "RequestException"
               /\ fs' = fs
               /\ status'.auth_state = status.auth_state
    ]_vars

\* the POST of a request on an authenticated connection with a cache raised
C16_Witness ==
    /\ last.n > 1
    /\ last.posts = 1
    /\ last.raised = "RequestException"
    /\ cache_path = P_c
    /\ ~cache_users_only
    /\ ~FileExists(fs, ExpectedFile(last))
    /\ status.auth_state = "good"


\* what the disk holds at and below the directory root
CacheOf(disk, root) ==
    [dirs |-> {d \in disk.dirs : d = root \/ Below(d, root)},
     files |-> [p \in {q \in DOMAIN disk.files : Below(q, root)} |-> disk.files[p]]]

Dequoted(s) ==
    IF Len(s) >= 2 /\ s[1] = "\"" /\ s[Len(s)] = "\"" THEN SubSeq(s, 2, Len(s) - 1) ELSE s

\* what a field becomes: true and false, bare or in one pair of quotes, are
\* the booleans, every other field is the string without its pair of quotes
Coerced(s) ==
    IF Dequoted(s) = T_true THEN PyTrue
    ELSE IF Dequoted(s) = T_false THEN PyFalse
    ELSE Dequoted(s)

\* process_response_values has run on a list
ProcessedList ==
    codec.fn = "process_response_values" /\ codec.done /\ codec.type = "list"

\* C18: process_response_values on a list of strings takes one pair of
\* surrounding double quotes off each element, turns exactly true and false
\* into the booleans and keeps every other element a string, with its single
\* quotes, digits, inner and unbalanced double quotes.
C18_OnePairThenBooleans ==
    ProcessedList =>
        /\ codec.out.raised = "none"
        /\ Len(codec.out.value) = Len(codec.value)
        /\ \A i \in 1..Len(codec.value) : codec.out.value[i] = Coerced(codec.value[i])

\* process_response_values has run on a str or on None
ProcessedOther ==
    codec.fn = "process_response_values" /\ codec.done /\ codec.type # "list"

\* C19: process_response_values raises TypeError on every str, the empty one
\* too, and on None.
C19_NonSequenceRaises ==
    ProcessedOther => codec.out.raised = "TypeError"

\* dict_from_single_response has run on two lines of as many fields (a data
\* line of one empty field is no line: the text ends with the header line)
DecodedTwoLines ==
    codec.fn = "dict_from_single_response" /\ codec.done /\ codec.more = << >>
    /\ codec.value # << << >> >>
    /\ Len(codec.header) = Len(codec.value)

\* C20: dict_from_single_response, graceful or not, on two lines of as many
\* fields returns the dict of the i-th header field to the i-th data field, in
\* their order, the data field being a boolean exactly for true and false, bare
\* or in double quotes, and the string without its quotes otherwise.
C20_PairsInOrder ==
    DecodedTwoLines =>
        /\ codec.out.raised = "none"
        /\ codec.out.value =
               [i \in 1..Len(codec.header) |-> <<codec.header[i], Coerced(codec.value[i])>>]


\* the field has no double quote, or one pair of them around the rest of it
WellQuoted(s) ==
    \/ \A i \in 1..Len(s) : s[i] # "\""
    \/ /\ Len(s) >= 2 /\ s[1] = "\"" /\ s[Len(s)] = "\""
       /\ \A i \in 2..(Len(s) - 1) : s[i] # "\""

\* dict_from_single_response has run on two lines that differ in their number
\* of fields, a field being what csv.reader takes for one: text without double
\* quotes, or text in one pair of them, where a comma does not end the field
DecodedUnequal ==
    /\ codec.fn = "dict_from_single_response" /\ codec.done /\ codec.more = << >>
    /\ codec.value # << << >> >>
    /\ \A i \in 1..Len(codec.value) : WellQuoted(codec.value[i])
    /\ Len(codec.header) # Len(codec.value)

LineCount ==
    IF codec.fn = "dict_from_short_response" THEN Len(SplitLines(codec.value[1]))
    ELSE 2 + Len(codec.more)

\* dict_from_single_response has run on a text that has not two lines, its
\* fields being what csv.reader takes for fields
DecodedNotTwoLines ==
    /\ codec.fn \in {"dict_from_single_response", "dict_from_short_response"}
    /\ codec.done
    /\ codec.fn = "dict_from_single_response"
           => \A i \in 1..Len(codec.value) : WellQuoted(codec.value[i])
    /\ LineCount # 2

\* what dict_from_single_response(graceful=True) gives for the first two lines
\* of the text alone
FirstTwoAlone ==
    DictFromSingleResponse(TwoLines(codec.header, codec.value) \o <<"\n">>, TRUE)

ParsedShort ==
    /\ codec.fn = "parse_multiline_response" /\ codec.done
    /\ codec.header = << >> \/ codec.rows = << >>

\* C23: on a text of less than two lines, the empty text and the text of a
\* header line among them, parse_multiline_response(graceful=True) returns the
\* empty list and parse_multiline_response(graceful=False) raises NoDataError,
\* not ValueError.
C23_TooShort ==
    ParsedShort =>
        IF codec.graceful THEN codec.out.raised = "none" /\ codec.out.value = << >>
        ELSE codec.out.raised = "NoDataError"

\* a call that is not graceful has raised NoDataError on a header line of two
\* fields
C23_Witness ==
    /\ ParsedShort /\ ~codec.graceful /\ Len(codec.header) = 2 /\ codec.rows = << >>
    /\ codec.out.raised = "NoDataError"


\* parse_multiline_response has run on a header line and data lines, one of
\* them at least with another number of fields than the header line
ParsedRagged ==
    /\ codec.fn = "parse_multiline_response" /\ codec.done
    /\ codec.header # << >> /\ codec.rows # << >>
    /\ \E i \in 1..Len(codec.rows) : Len(codec.rows[i]) # Len(codec.header)

\* C24: on a text of two lines or more with a data line of another number of
\* fields than the header, parse_multiline_response(graceful=True) raises
\* nothing and returns one dict for each data line, and
\* parse_multiline_response(graceful=False) raises ValueError and returns
\* nothing.
C24_RaggedRows ==
    ParsedRagged =>
        IF codec.graceful
        THEN codec.out.raised = "none" /\ Len(codec.out.value) = Len(codec.rows)
        ELSE codec.out.raised = "ValueError" /\ codec.out.value = << >>

\* a graceful call has returned two dicts for a data line that fits the
\* header of two fields and a shorter one after it
C24_Witness ==
    /\ ParsedRagged /\ codec.graceful
    /\ Len(codec.header) = 2 /\ Len(codec.rows) = 2
    /\ Len(codec.rows[1]) = 2 /\ Len(codec.rows[2]) = 1
    /\ Len(codec.out.value) = 2
    /\ Len(codec.out.value[1]) = 2 /\ Len(codec.out.value[2]) = 1


\* parse_multiline_response(graceful=True) has run on a header line and data
\* lines
ParsedGraceful ==
    /\ codec.fn = "parse_multiline_response" /\ codec.done /\ codec.graceful
    /\ codec.header # << >> /\ codec.rows # << >>

\* the smallest number of fields of the header line and the data lines up to
\* the i-th
NarrowedWidth(i) ==
    CHOOSE w \in {Len(codec.header)} \cup {Len(codec.rows[j]) : j \in 1..i} :
        \A v \in {Len(codec.header)} \cup {Len(codec.rows[j]) : j \in 1..i} : w <= v

\* C26: parse_multiline_response(graceful=True) narrows the header for good:
\* the dict of the i-th data line has the first w header names for its keys,
\* w being the smallest number of fields of the header and of the data lines up
\* to the i-th, so that the keys of every dict are the first keys of the dict
\* before it.
C26_HeaderNarrowsForGood ==
    ParsedGraceful =>
        /\ codec.out.raised = "none"
        /\ Len(codec.out.value) = Len(codec.rows)
        /\ \A i \in 1..Len(codec.rows) :
               /\ DictKeys(codec.out.value[i]) = [k \in 1..NarrowedWidth(i) |-> <<HeaderNames[k]>>]
               /\ i > 1 => DictKeys(codec.out.value[i]) =
                               SubSeq(DictKeys(codec.out.value[i - 1]), 1,
                                      Len(codec.out.value[i]))

\* a short data line after a long one has left dicts of two and of one entry,
\* and the same lines the other way round leave two dicts of one entry
C26_Witness ==
    /\ ParsedGraceful
    /\ Len(codec.header) = 3 /\ Len(codec.rows) = 2
    /\ Len(codec.rows[1]) = 2 /\ Len(codec.rows[2]) = 1
    /\ Len(codec.out.value[1]) = 2 /\ Len(codec.out.value[2]) = 1
    /\ Len(ParseMultilineResponse(TableText(codec.header, <<codec.rows[2], codec.rows[1]>>),
                                  TRUE).value[2]) = 1
    /\ Len(ParseMultilineResponse(TableText(codec.header, <<codec.rows[2], codec.rows[1]>>),
                                  TRUE).value[1]) = 1


\* the IDs of the systems whose localisation has loc in it, in any letter case
RECURSIVE InRoom(_, _, _)
InRoom(systems, loc, i) ==
    IF i > Len(systems) THEN << >>
    ELSE (IF Contains(Lower(loc), Lower(systems[i][2].localisation))
          THEN <<systems[i][1]>> ELSE << >>) \o InRoom(systems, loc, i + 1)

\* C25: get_systems_matching with an empty list for name_contains leaves the
\* filter of the names out: it returns the IDs of all the systems whose
\* localisation has the given string in it.
C25_EmptyListSkipsFilter ==
    (codec.fn = "get_systems_matching" /\ codec.done
     /\ codec.type = "list" /\ codec.value = << >>)
        => /\ codec.out.raised = "none"
           /\ codec.out.value = InRoom(codec.systems, codec.localisation, 1)


\* the file of the status code that goes with the cache file p
StatusFileOf(p) ==
    SubSeq(p, 1, Len(p) - 4)
        \o <<"_", "s", "t", "a", "t", "u", "s", "-", "c", "o", "d", "e", ".", "t", "x", "t">>

\* the number that the decimal digits of s stand for
RECURSIVE Decimal(_)
Decimal(s) ==
    IF s = << >> THEN 0
    ELSE 10 * Decimal(SubSeq(s, 1, Len(s) - 1))
         + (CHOOSE d \in 0..9 : <<"0", "1", "2", "3", "4", "5", "6", "7", "8", "9">>[d + 1] = s[Len(s)])

\* C27: a request served from the cache has the content of <signature>.txt for
\* its body, and for its status code the integer in <signature>_status-code.txt
\* if that file exists, 200 if it does not.
C27_CachedStatusCode ==
    [][(IsCall /\ last'.served = "cache") =>
          /\ last'.file \in DOMAIN fs.files
          /\ last'.response.text = fs.files[last'.file]
          /\ last'.response.status_code =
                 IF StatusFileOf(last'.file) \in DOMAIN fs.files
                 THEN Decimal(fs.files[StatusFileOf(last'.file)])
                 ELSE 200
      ]_vars

\* the auth request was served from the cache with the status code 500 of its
\* status file
C27_Witness ==
    /\ last.served = "cache" /\ last.action = T_auth
    /\ StatusFileOf(last.file) \in DOMAIN fs.files
    /\ last.response.status_code = 500
    /\ status.auth_state = "FAILED-UNKNOWN"


\* the step is a call of request() that got a response on-line while the disk
\* refused the directory or the file of the cache
StoreFailed ==
    /\ IsCall /\ Answered(last') /\ last'.io # "ok"
    /\ cache_path # << >>

\* C28: a failure of the store (os.makedirs or the writing of the file) does
\* not end the call: request() returns the on-line response, or raises
\* ConnectionError for the unauthorized marker in it and for nothing else;
\* auth_state is FAILED with the marker and as before without it, and
\* last_served_from_cache is false.
C28_StoreFailureSwallowed ==
    [][StoreFailed =>
          /\ last'.response = last'.posted
          /\ last'.raised = IF last'.posted.text \in MarkerTexts
                            THEN "ConnectionError" ELSE "none"
          /\ last_served_from_cache' = FALSE
          /\ pc = "ready" =>
                 /\ exc' = last'.raised
                 /\ status'.auth_state = IF last'.posted.text \in MarkerTexts
                                         THEN "FAILED" ELSE status.auth_state
          /\ pc = "auth_request" => exc' \in {"none", "ConnectionError"}
      ]_vars

\* os.makedirs failed for a getuser request on an empty disk: the call has
\* returned the response of the server and nothing is in the cache
C28_Witness ==
    /\ last.io = "mkdir_fails" /\ last.action = T_getuser /\ last.served = "online"
    /\ cache_path # << >> /\ ~cache_users_only
    /\ fs = EmptyFs
    /\ last.raised = "none" /\ exc = "none"
    /\ last.response.text = B_done
    /\ ~last_served_from_cache


\* C29: request() stores before it scans.  With the cache enabled for the
\* action, an on-line response with the unauthorized marker is in the cache
\* file of the request when request() raises ConnectionError (the disk taking
\* the file); and a request with skip_cache false whose cache file holds a
\* text with the marker is served from that file without a POST, sets
\* auth_state to FAILED, raises ConnectionError and leaves the file as it is
\* for the requests after it.
C29_RefusalIsReplayed ==
    [][IsCall =>
          /\ (/\ CachingEnabled(last'.action) /\ last'.served = "online"
              /\ Answered(last') /\ last'.posted.text \in MarkerTexts /\ last'.io = "ok")
                 => /\ ExpectedFile(last') \in DOMAIN fs'.files
                    /\ fs'.files[ExpectedFile(last')] = last'.posted.text
                    /\ last'.raised = "ConnectionError"
          /\ (/\ CachingEnabled(last'.action) /\ ~last'.skip_cache
              /\ ExpectedFile(last') \in DOMAIN fs.files
              /\ fs.files[ExpectedFile(last')] \in MarkerTexts)
                 => /\ last'.served = "cache" /\ last'.posts = 0
                    /\ last'.raised = "ConnectionError"
                    /\ status'.auth_state = "FAILED"
                    /\ fs' = fs
      ]_vars

\* the refusal that the call before got on-line has been served again from
\* the cache
C29_Witness ==
    /\ ops = 2 /\ last.n >= 2
    /\ last.served = "cache" /\ last.posts = 0 /\ ~last.skip_cache
    /\ last.response.text \in MarkerTexts
    /\ last.auth_before = "FAILED"
    /\ last.raised = "ConnectionError" /\ status.auth_state = "FAILED"


\* C30: the cache also answers the requests that change the server.  With the
\* cache enabled for the action and a cache file present for the setright or
\* newuser request, set_system_booking_permissions and new_user post nothing,
\* leave the disk as it is and get their outcome from the text of the file;
\* and after a setright request that was answered on-line and stored, the same
\* set_system_booking_permissions call again posts nothing.
C30_MutatingActionsReplayed ==
    [][(IsCall /\ last'.action \in {T_setright, T_newuser} /\ CachingEnabled(last'.action)) =>
          /\ ExpectedFile(last') \in DOMAIN fs.files =>
                LET body == fs.files[ExpectedFile(last')]
                IN  /\ last'.posts = 0 /\ last'.served = "cache" /\ fs' = fs
                    /\ last'.response.text = body
                    /\ last'.action = T_setright =>
                          /\ exc' = IF body \in MarkerTexts THEN "ConnectionError" ELSE "none"
                          /\ ret' = IF body \in MarkerTexts THEN None
                                    ELSE IF body \in {B_done, B_Done_nl} THEN PyTrue
                                    ELSE PyFalse
                    /\ last'.action = T_newuser =>
                          exc' = IF body \in MarkerTexts THEN "ConnectionError"
                                 ELSE IF body = B_OK_newuser THEN "none"
                                 ELSE "RuntimeError"
          /\ (/\ last.action = T_setright /\ SameRequest(last, last')
              /\ last.served = "online" /\ Answered(last) /\ last.io = "ok")
                 => last'.posts = 0 /\ last'.served = "cache"
      ]_vars

\* the permission was set on-line by one call, and the same call again got
\* True from the cache without a request to the server
C30_Witness ==
    /\ ops = 2 /\ last.n >= 2
    /\ last.action = T_setright /\ last.served = "cache" /\ last.posts = 0
    /\ last.response.text = B_Done_nl
    /\ ret = PyTrue /\ exc = "none"
    /\ ~cache_users_only /\ cache_path # << >>

\* new_user got "OK newuser" from the cache without a request to the server
C30_WitnessNewUser ==
    /\ last.action = T_newuser /\ last.served = "cache" /\ last.posts = 0
    /\ last.response.text = B_OK_newuser /\ exc = "none" /\ pc = "ready"

====
